---- MODULE Spec2Model ----
(***************************************************************************)
(* State-machine model of the LOWTHD tape simulator DSP core               *)
(* (HybridTapeProcessor, JilesAthertonCore, ReEmphasis/DeEmphasis) and of  *)
(* the plugin shell that drives two channel processors.                    *)
(*                                                                         *)
(* Numbers.  The C++ code computes in IEEE double.  The model computes in  *)
(* a decimal floating-point format with Digits significant digits: a       *)
(* number is a pair <<m, e>> standing for m * 10^e, normalised so that     *)
(* 10^(Digits-1) <= |m| < 10^Digits (zero is <<0, 0>>).  Every arithmetic  *)
(* operator rounds toward zero.  The non-finite doubles (NaN, +Inf, -Inf)  *)
(* are one value, NonFinite: the result of a division by zero, of an       *)
(* overflow of the double range, and of any operation on NonFinite.        *)
(***************************************************************************)
EXTENDS Integers, Sequences, FiniteSets, TLC

\* 10^n for the exponents the arithmetic forms.
Pow10(n) == 10 ^ n

\* Significant decimal digits of the model's arithmetic.
Digits == 4
\* Products and pre-scaled quotients are formed on at most 4 + Digits digits,
\* which keeps every intermediate inside TLC's 32-bit integers.
Guard == Pow10(Digits - 4)
PreScale == Pow10(4)

AbsI(a) == IF a >= 0 THEN a ELSE -a

\* Integer division rounding toward zero (as a C++ cast or fdiv truncation).
TDiv(a, b) == IF (a >= 0) = (b > 0) THEN AbsI(a) \div AbsI(b)
              ELSE -(AbsI(a) \div AbsI(b))

\* Number of decimal digits of n > 0.
NDigits(n) ==
    IF n < 100000
    THEN IF n < 100 THEN (IF n < 10 THEN 1 ELSE 2)
         ELSE IF n < 10000 THEN (IF n < 1000 THEN 3 ELSE 4) ELSE 5
    ELSE IF n < 10000000 THEN (IF n < 1000000 THEN 6 ELSE 7)
         ELSE IF n < 1000000000 THEN (IF n < 100000000 THEN 8 ELSE 9) ELSE 10

\* The non-finite doubles.
NonFinite == <<0, 1>>

\* m * 10^e brought to Digits significant digits, truncating toward zero;
\* NonFinite from 10^308 on, beyond the largest double.
Norm(m, e) ==
    CHOOSE r \in
      {IF v = 0 THEN <<0, 0>>
       ELSE CHOOSE q \in
              {IF x + s + Digits > 308 THEN NonFinite
               ELSE IF s > 0
               THEN <<(IF v > 0 THEN v \div 10 ^ s ELSE -((-v) \div 10 ^ s)), x + s>>
               ELSE <<v * 10 ^ (-s), x + s>> :
                 s \in {NDigits(AbsI(v)) - Digits}} : TRUE :
         v \in {m}, x \in {e}} : TRUE

\* The literal m * 10^e, e.g. F(95, -3) is 0.095.
F(m, e) == Norm(m, e)
Zero == <<0, 0>>
One == F(1, 0)
Two == F(2, 0)
Three == F(3, 0)

FNeg(a) == <<-a[1], a[2]>>
FAbs(a) == <<AbsI(a[1]), a[2]>>
FMul(a, b) ==
    CHOOSE r \in
      {IF x = NonFinite \/ y = NonFinite THEN NonFinite
       ELSE IF x[1] = 0 \/ y[1] = 0 THEN Zero
       ELSE Norm(x[1] * TDiv(y[1], Guard), x[2] + y[2] + (Digits - 4)) :
         x \in {a}, y \in {b}} : TRUE
\* A division by zero gives Inf or NaN.
FDiv(a, b) ==
    CHOOSE r \in
      {IF x = NonFinite \/ y[1] = 0 THEN NonFinite
       ELSE IF x[1] = 0 THEN Zero
       ELSE Norm(TDiv(x[1] * PreScale, y[1]), x[2] - y[2] - 4) :
         x \in {a}, y \in {b}} : TRUE

\* a + b: the operand of smaller magnitude is shifted onto the larger one's
\* exponent; it vanishes when its exponent lies more than 4 below.
FAdd(a, b) ==
    CHOOSE r \in
      {IF x = NonFinite \/ y = NonFinite THEN NonFinite
       ELSE IF y[1] = 0 THEN x
       ELSE IF x[1] = 0 THEN y
       ELSE IF x[2] - y[2] > 4 THEN x
       ELSE IF y[2] - x[2] > 4 THEN y
       ELSE IF x[2] >= y[2] THEN Norm(x[1] * 10 ^ (x[2] - y[2]) + y[1], y[2])
       ELSE Norm(y[1] * 10 ^ (y[2] - x[2]) + x[1], x[2]) :
         x \in {a}, y \in {b}} : TRUE
FSub(a, b) == FAdd(a, <<-b[1], b[2]>>)

\* Sign of a - b, decided exactly on the normalised pairs; 2 (unordered, every
\* comparison false) when an operand is NonFinite.
FCmp(a, b) ==
    IF a = NonFinite \/ b = NonFinite THEN 2
    ELSE IF (a[1] > 0) # (b[1] > 0) THEN (IF b[1] > 0 THEN -1 ELSE 1)
    ELSE IF (a[1] < 0) # (b[1] < 0) THEN (IF a[1] < 0 THEN -1 ELSE 1)
    ELSE IF a[1] = 0 THEN 0
    ELSE IF a[2] # b[2]
         THEN (IF (a[2] < b[2]) = (a[1] > 0) THEN -1 ELSE 1)
         ELSE (IF a[1] < b[1] THEN -1 ELSE IF a[1] > b[1] THEN 1 ELSE 0)
FLt(a, b) == FCmp(a, b) < 0
FLe(a, b) == FCmp(a, b) <= 0
FGt(a, b) == FCmp(a, b) = 1
FGe(a, b) == FCmp(a, b) \in {0, 1}

\* std::clamp(v, lo, hi) == (v < lo) ? lo : (hi < v) ? hi : v
FClamp(v, lo, hi) == IF FLt(v, lo) THEN lo ELSE IF FLt(hi, v) THEN hi ELSE v


(***************************************************************************)
(* libm functions.  Each is evaluated by a continued fraction that is free *)
(* of cancellation at the model's precision; CFDepth levels give four      *)
(* digits on the range each fraction is used on.                           *)
(***************************************************************************)
CFDepth == 6
Five == F(5, 0)
HalfPi == F(15708, -4)

\* d_lo of the fraction d_n = (2n+1) + z2 / d_(n+1), given d = d_(n+1).
\* Each level is a value before the level above it is entered.
RECURSIVE OddCFFrom(_, _, _, _)
OddCFFrom(z2, lo, n, d) ==
    IF n < lo THEN d
    ELSE CHOOSE r \in {OddCFFrom(z2, lo, n - 1, dn) :
                       dn \in {FAdd(F(2 * n + 1, 0), FDiv(z2, d))}} : TRUE

\* d_lo with the fraction cut off at d_CFDepth = 2 CFDepth + 1.
OddCF(z2, lo) == OddCFFrom(z2, lo, CFDepth - 1, F(2 * CFDepth + 1, 0))

\* exp(z): the series 1 + z + z^2/2 + z^3/6 for |z| <= 1/2, otherwise the
\* square of exp(z/2).  The value overflows as a double does.
RECURSIVE Exp(_)
Exp(z) ==
    IF z = NonFinite THEN NonFinite
    ELSE IF FLe(FAbs(z), F(5, -1))
    THEN FAdd(One, FMul(z, FAdd(One, FMul(z, FAdd(F(5, -1), FDiv(z, F(6, 0)))))))
    ELSE CHOOSE r \in {FMul(h, h) : h \in {Exp(FMul(z, F(5, -1)))}} : TRUE

\* tanh(z) as (e^z - e^-z) / (e^z + e^-z), with no branch for large |z|.
TanhByExponentials(z) ==
    CHOOSE r \in {FDiv(FSub(ep, en), FAdd(ep, en)) :
                  ep \in {Exp(z)}, en \in {Exp(FNeg(z))}} : TRUE

\* std::tanh(z) = z / (1 + z^2/(3 + z^2/(5 + ...))); +-1 beyond |z| >= 5.
Tanh(z) ==
    IF FGe(FAbs(z), Five) THEN (IF z[1] > 0 THEN One ELSE FNeg(One))
    ELSE FDiv(z, OddCF(FMul(z, z), 0))

\* d_0 of the fraction d_n = (2n+1) + (n+1)^2 z2 / d_(n+1), given d = d_(n+1).
RECURSIVE AtanCFFrom(_, _, _)
AtanCFFrom(z2, n, d) ==
    IF n < 0 THEN d
    ELSE CHOOSE r \in {AtanCFFrom(z2, n - 1, dn) :
                       dn \in {FAdd(F(2 * n + 1, 0),
                                    FDiv(FMul(F((n + 1) * (n + 1), 0), z2), d))}} : TRUE

AtanSmall(z) ==
    FDiv(z, AtanCFFrom(FMul(z, z), CFDepth - 1, F(2 * CFDepth + 1, 0)))

\* std::atan(z); for |z| > 1 through atan(z) = +-pi/2 - atan(1/z).
Atan(z) ==
    IF FLe(FAbs(z), One) THEN AtanSmall(z)
    ELSE IF z[1] > 0 THEN FSub(HalfPi, AtanSmall(FDiv(One, z)))
    ELSE FSub(FNeg(HalfPi), AtanSmall(FDiv(One, z)))


(***************************************************************************)
(* Biquad sections (transposed direct form II).  A section is a record of  *)
(* its five coefficients and its two state words.                          *)
(***************************************************************************)
\* struct Biquad after construction: the identity filter with cleared state.
Biquad0 == [b0 |-> One, b1 |-> Zero, b2 |-> Zero, a1 |-> Zero, a2 |-> Zero,
            z1 |-> Zero, z2 |-> Zero]

\* Biquad::reset(): clears the state words and keeps the coefficients.
BiquadReset(f) == [f EXCEPT !.z1 = Zero, !.z2 = Zero]

\* Biquad::process(input): returns <<section after the call, output>>.
BiquadProcess(f, input) ==
    LET output == FAdd(FMul(f.b0, input), f.z1)
    IN  << [f EXCEPT !.z1 = FAdd(FSub(FMul(f.b1, input), FMul(f.a1, output)), f.z2),
                     !.z2 = FSub(FMul(f.b2, input), FMul(f.a2, output))],
           output >>

\* Writing the coefficients and clearing the two state words.
WithCoeffsClearingState(f, c) ==
    [b0 |-> Norm(c[1][1], c[1][2]), b1 |-> Norm(c[2][1], c[2][2]),
     b2 |-> Norm(c[3][1], c[3][2]), a1 |-> Norm(c[4][1], c[4][2]),
     a2 |-> Norm(c[5][1], c[5][2]), z1 |-> Zero, z2 |-> Zero]

\* Writing a designed coefficient tuple into a section leaves its state alone;
\* the tabulated values are brought to the model's precision.
WithCoeffs(f, c) ==
    [f EXCEPT !.b0 = Norm(c[1][1], c[1][2]), !.b1 = Norm(c[2][1], c[2][2]),
              !.b2 = Norm(c[3][1], c[3][2]), !.a1 = Norm(c[4][1], c[4][2]),
              !.a2 = Norm(c[5][1], c[5][2])]

\* designHighShelf(filter, fc, gainDB, Q, fs): the five coefficients
\* <<b0, b1, b2, a1, a2>> of the RBJ high shelf, tabulated for every design the
\* program requests (gain in tenths of a dB, Q in hundredths).
designHighShelf(fc, gainDB10, Q100, fs) ==
    CASE fc = 3000 /\ gainDB10 = 40 /\ Q100 = 50 /\ fs = 44100 ->
         <<<<145980, -5>>, <<-197320, -5>>, <<666791, -6>>, <<-121670, -5>>, <<370091, -6>>>>
      [] fc = 10000 /\ gainDB10 = 50 /\ Q100 = 71 /\ fs = 44100 ->
         <<<<136676, -5>>, <<-460994, -6>>, <<264680, -6>>, <<-310764, -8>>, <<173555, -6>>>>
      [] fc = 3000 /\ gainDB10 = -40 /\ Q100 = 50 /\ fs = 44100 ->
         <<<<685026, -6>>, <<-833473, -6>>, <<253522, -6>>, <<-135169, -5>>, <<456769, -6>>>>
      [] fc = 10000 /\ gainDB10 = -50 /\ Q100 = 71 /\ fs = 44100 ->
         <<<<731656, -6>>, <<-227373, -8>>, <<126983, -6>>, <<-337289, -6>>, <<193655, -6>>>>
      [] fc = 3000 /\ gainDB10 = 40 /\ Q100 = 50 /\ fs = 48000 ->
         <<<<146817, -5>>, <<-205201, -5>>, <<717002, -6>>, <<-127016, -5>>, <<403324, -6>>>>
      [] fc = 10000 /\ gainDB10 = 50 /\ Q100 = 71 /\ fs = 48000 ->
         <<<<139382, -5>>, <<-654832, -6>>, <<296448, -6>>, <<-141656, -6>>, <<177089, -6>>>>
      [] fc = 3000 /\ gainDB10 = -40 /\ Q100 = 50 /\ fs = 48000 ->
         <<<<681119, -6>>, <<-865127, -6>>, <<274712, -6>>, <<-139766, -5>>, <<488363, -6>>>>
      [] fc = 10000 /\ gainDB10 = -50 /\ Q100 = 71 /\ fs = 48000 ->
         <<<<717454, -6>>, <<-101632, -6>>, <<127053, -6>>, <<-469812, -6>>, <<212688, -6>>>>
      [] fc = 3000 /\ gainDB10 = 40 /\ Q100 = 50 /\ fs = 88200 ->
         <<<<151563, -5>>, <<-250226, -5>>, <<103279, -5>>, <<-157030, -5>>, <<616461, -6>>>>
      [] fc = 10000 /\ gainDB10 = 50 /\ Q100 = 71 /\ fs = 88200 ->
         <<<<154763, -5>>, <<-178092, -5>>, <<645858, -6>>, <<-911201, -6>>, <<323769, -6>>>>
      [] fc = 3000 /\ gainDB10 = -40 /\ Q100 = 50 /\ fs = 88200 ->
         <<<<659790, -6>>, <<-103607, -5>>, <<406735, -6>>, <<-165097, -5>>, <<681422, -6>>>>
      [] fc = 10000 /\ gainDB10 = -50 /\ Q100 = 71 /\ fs = 88200 ->
         <<<<646151, -6>>, <<-588773, -6>>, <<209204, -6>>, <<-115074, -5>>, <<417322, -6>>>>
      [] fc = 3000 /\ gainDB10 = 40 /\ Q100 = 50 /\ fs = 96000 ->
         <<<<152068, -5>>, <<-255051, -5>>, <<106943, -5>>, <<-160195, -5>>, <<641562, -6>>>>
      [] fc = 10000 /\ gainDB10 = 50 /\ Q100 = 71 /\ fs = 96000 ->
         <<<<156421, -5>>, <<-190485, -5>>, <<700971, -6>>, <<-992327, -6>>, <<352659, -6>>>>
      [] fc = 3000 /\ gainDB10 = -40 /\ Q100 = 50 /\ fs = 96000 ->
         <<<<657600, -6>>, <<-105344, -5>>, <<421891, -6>>, <<-167721, -5>>, <<703260, -6>>>>
      [] fc = 10000 /\ gainDB10 = -50 /\ Q100 = 71 /\ fs = 96000 ->
         <<<<639298, -6>>, <<-634393, -6>>, <<225454, -6>>, <<-121777, -5>>, <<448130, -6>>>>
      [] fc = 3000 /\ gainDB10 = 40 /\ Q100 = 50 /\ fs = 176400 ->
         <<<<154820, -5>>, <<-281466, -5>>, <<127928, -5>>, <<-177357, -5>>, <<786386, -6>>>>
      [] fc = 10000 /\ gainDB10 = 50 /\ Q100 = 71 /\ fs = 176400 ->
         <<<<165564, -5>>, <<-259747, -5>>, <<107119, -5>>, <<-143236, -5>>, <<561720, -6>>>>
      [] fc = 3000 /\ gainDB10 = -40 /\ Q100 = 50 /\ fs = 176400 ->
         <<<<645910, -6>>, <<-114557, -5>>, <<507934, -6>>, <<-181802, -5>>, <<826299, -6>>>>
      [] fc = 10000 /\ gainDB10 = -50 /\ Q100 = 71 /\ fs = 176400 ->
         <<<<603994, -6>>, <<-865134, -6>>, <<339276, -6>>, <<-156886, -5>>, <<646992, -6>>>>
      [] fc = 3000 /\ gainDB10 = 40 /\ Q100 = 50 /\ fs = 192000 ->
         <<<<155102, -5>>, <<-284179, -5>>, <<130169, -5>>, <<-179103, -5>>, <<801950, -6>>>>
      [] fc = 10000 /\ gainDB10 = 50 /\ Q100 = 71 /\ fs = 192000 ->
         <<<<166507, -5>>, <<-266987, -5>>, <<111623, -5>>, <<-147700, -5>>, <<588423, -6>>>>
      [] fc = 3000 /\ gainDB10 = -40 /\ Q100 = 50 /\ fs = 192000 ->
         <<<<644738, -6>>, <<-115475, -5>>, <<517048, -6>>, <<-183221, -5>>, <<839248, -6>>>>
      [] fc = 10000 /\ gainDB10 = -50 /\ Q100 = 71 /\ fs = 192000 ->
         <<<<600574, -6>>, <<-887046, -6>>, <<353392, -6>>, <<-160346, -5>>, <<670377, -6>>>>
      [] fc = 3000 /\ gainDB10 = 40 /\ Q100 = 50 /\ fs = 352800 ->
         <<<<156597, -5>>, <<-298624, -5>>, <<142366, -5>>, <<-188357, -5>>, <<886956, -6>>>>
      [] fc = 10000 /\ gainDB10 = 50 /\ Q100 = 71 /\ fs = 352800 ->
         <<<<171524, -5>>, <<-305862, -5>>, <<138017, -5>>, <<-171194, -5>>, <<748729, -6>>>>
      [] fc = 3000 /\ gainDB10 = -40 /\ Q100 = 50 /\ fs = 352800 ->
         <<<<638581, -6>>, <<-120281, -5>>, <<566393, -6>>, <<-190696, -5>>, <<909121, -6>>>>
      [] fc = 10000 /\ gainDB10 = -50 /\ Q100 = 71 /\ fs = 352800 ->
         <<<<583007, -6>>, <<-998074, -6>>, <<436514, -6>>, <<-178320, -5>>, <<804648, -6>>>>
      [] fc = 3000 /\ gainDB10 = 40 /\ Q100 = 50 /\ fs = 384000 ->
         <<<<156747, -5>>, <<-300069, -5>>, <<143610, -5>>, <<-189278, -5>>, <<895651, -6>>>>
      [] fc = 10000 /\ gainDB10 = 50 /\ Q100 = 71 /\ fs = 384000 ->
         <<<<172025, -5>>, <<-309774, -5>>, <<140888, -5>>, <<-173511, -5>>, <<766509, -6>>>>
      [] fc = 3000 /\ gainDB10 = -40 /\ Q100 = 50 /\ fs = 384000 ->
         <<<<637972, -6>>, <<-120754, -5>>, <<571401, -6>>, <<-191436, -5>>, <<916191, -6>>>>
      [] fc = 10000 /\ gainDB10 = -50 /\ Q100 = 71 /\ fs = 384000 ->
         <<<<581312, -6>>, <<-100864, -5>>, <<445581, -6>>, <<-180075, -5>>, <<819000, -6>>>>
      \* BiasShielding.cpp designs (HFCut, HFRestore)
      [] fc = 9000 /\ gainDB10 = -75 /\ Q100 = 100 /\ fs = 32000 ->
         <<<<686845, -6>>, <<368267, -6>>, <<253972, -6>>, <<-243238, -7>>, <<333407, -6>>>>
      [] fc = 9000 /\ gainDB10 = 75 /\ Q100 = 100 /\ fs = 32000 ->
         <<<<145593, -5>>, <<-354138, -7>>, <<485419, -6>>, <<536171, -6>>, <<369766, -6>>>>
      [] fc = 12000 /\ gainDB10 = -55 /\ Q100 = 100 /\ fs = 32000 ->
         <<<<859272, -6>>, <<101699, -5>>, <<448321, -6>>, <<888599, -6>>, <<435986, -6>>>>
      [] fc = 12000 /\ gainDB10 = 55 /\ Q100 = 100 /\ fs = 32000 ->
         <<<<116378, -5>>, <<103413, -5>>, <<507390, -6>>, <<118355, -5>>, <<521745, -6>>>>
      [] fc = 13600 /\ gainDB10 = -45 /\ Q100 = 85 /\ fs = 32000 ->
         <<<<925822, -6>>, <<136875, -5>>, <<570377, -6>>, <<132550, -5>>, <<539455, -6>>>>
      [] fc = 13600 /\ gainDB10 = -25 /\ Q100 = 85 /\ fs = 32000 ->
         <<<<958156, -6>>, <<138691, -5>>, <<574476, -6>>, <<136261, -5>>, <<556933, -6>>>>
      [] fc = 13600 /\ gainDB10 = 25 /\ Q100 = 85 /\ fs = 32000 ->
         <<<<104367, -5>>, <<142212, -5>>, <<581255, -6>>, <<144748, -5>>, <<599564, -6>>>>
      [] fc = 13600 /\ gainDB10 = 45 /\ Q100 = 85 /\ fs = 32000 ->
         <<<<108012, -5>>, <<143170, -5>>, <<582676, -6>>, <<147842, -5>>, <<616076, -6>>>>
      [] fc = 9000 /\ gainDB10 = -75 /\ Q100 = 100 /\ fs = 44100 ->
         <<<<598001, -6>>, <<-611229, -7>>, <<200115, -6>>, <<-650292, -6>>, <<387285, -6>>>>
      [] fc = 9000 /\ gainDB10 = 75 /\ Q100 = 100 /\ fs = 44100 ->
         <<<<167224, -5>>, <<-108744, -5>>, <<647632, -6>>, <<-102212, -6>>, <<334640, -6>>>>
      [] fc = 12000 /\ gainDB10 = -55 /\ Q100 = 100 /\ fs = 44100 ->
         <<<<750208, -6>>, <<293434, -6>>, <<264520, -6>>, <<-252516, -7>>, <<333413, -6>>>>
      [] fc = 12000 /\ gainDB10 = 55 /\ Q100 = 100 /\ fs = 44100 ->
         <<<<133296, -5>>, <<-336595, -7>>, <<444428, -6>>, <<391137, -6>>, <<352596, -6>>>>
      [] fc = 16000 /\ gainDB10 = -45 /\ Q100 = 85 /\ fs = 44100 ->
         <<<<867021, -6>>, <<885652, -6>>, <<364042, -6>>, <<768418, -6>>, <<348296, -6>>>>
      [] fc = 16000 /\ gainDB10 = 45 /\ Q100 = 85 /\ fs = 44100 ->
         <<<<115337, -5>>, <<886274, -6>>, <<401716, -6>>, <<102149, -5>>, <<419876, -6>>>>
      [] fc = 18000 /\ gainDB10 = -25 /\ Q100 = 85 /\ fs = 44100 ->
         <<<<948722, -6>>, <<125085, -5>>, <<508721, -6>>, <<121640, -5>>, <<491895, -6>>>>
      [] fc = 18000 /\ gainDB10 = 25 /\ Q100 = 85 /\ fs = 44100 ->
         <<<<105405, -5>>, <<128215, -5>>, <<518481, -6>>, <<131846, -5>>, <<536217, -6>>>>
      [] fc = 9000 /\ gainDB10 = -75 /\ Q100 = 100 /\ fs = 48000 ->
         <<<<580450, -6>>, <<-144141, -6>>, <<197971, -6>>, <<-776730, -6>>, <<411010, -6>>>>
      [] fc = 9000 /\ gainDB10 = 75 /\ Q100 = 100 /\ fs = 48000 ->
         <<<<172280, -5>>, <<-133815, -5>>, <<708088, -6>>, <<-248327, -6>>, <<341064, -6>>>>
      [] fc = 12000 /\ gainDB10 = -55 /\ Q100 = 100 /\ fs = 48000 ->
         <<<<728618, -6>>, <<153151, -6>>, <<246905, -6>>, <<-210193, -6>>, <<338867, -6>>>>
      [] fc = 12000 /\ gainDB10 = 55 /\ Q100 = 100 /\ fs = 48000 ->
         <<<<137246, -5>>, <<-288482, -6>>, <<465082, -6>>, <<210193, -6>>, <<338867, -6>>>>
      [] fc = 16000 /\ gainDB10 = -45 /\ Q100 = 85 /\ fs = 48000 ->
         <<<<840787, -6>>, <<673666, -6>>, <<299559, -6>>, <<515274, -6>>, <<298738, -6>>>>
      [] fc = 16000 /\ gainDB10 = 45 /\ Q100 = 85 /\ fs = 48000 ->
         <<<<118936, -5>>, <<612847, -6>>, <<355307, -6>>, <<801233, -6>>, <<356284, -6>>>>
      [] fc = 18000 /\ gainDB10 = -25 /\ Q100 = 85 /\ fs = 48000 ->
         <<<<930454, -6>>, <<988995, -6>>, <<403706, -6>>, <<931435, -6>>, <<391720, -6>>>>
      [] fc = 18000 /\ gainDB10 = 25 /\ Q100 = 85 /\ fs = 48000 ->
         <<<<107474, -5>>, <<100105, -5>>, <<420999, -6>>, <<106292, -5>>, <<433880, -6>>>>
      [] fc = 9000 /\ gainDB10 = -75 /\ Q100 = 100 /\ fs = 96000 ->
         <<<<490868, -6>>, <<-555037, -6>>, <<247439, -6>>, <<-144187, -5>>, <<625136, -6>>>>
      [] fc = 9000 /\ gainDB10 = 75 /\ Q100 = 100 /\ fs = 96000 ->
         <<<<203721, -5>>, <<-293738, -5>>, <<127353, -5>>, <<-113072, -5>>, <<504084, -6>>>>
      [] fc = 12000 /\ gainDB10 = -55 /\ Q100 = 100 /\ fs = 96000 ->
         <<<<617831, -6>>, <<-549004, -6>>, <<269366, -6>>, <<-118355, -5>>, <<521745, -6>>>>
      [] fc = 12000 /\ gainDB10 = 55 /\ Q100 = 100 /\ fs = 96000 ->
         <<<<161857, -5>>, <<-191566, -5>>, <<844479, -6>>, <<-888599, -6>>, <<435986, -6>>>>
      [] fc = 16000 /\ gainDB10 = -45 /\ Q100 = 85 /\ fs = 96000 ->
         <<<<708458, -6>>, <<-365050, -6>>, <<211643, -6>>, <<-801233, -6>>, <<356284, -6>>>>
      [] fc = 16000 /\ gainDB10 = 45 /\ Q100 = 85 /\ fs = 96000 ->
         <<<<141152, -5>>, <<-113095, -5>>, <<502900, -6>>, <<-515274, -6>>, <<298738, -6>>>>
      [] fc = 18000 /\ gainDB10 = -25 /\ Q100 = 85 /\ fs = 96000 ->
         <<<<835631, -6>>, <<-343012, -6>>, <<237496, -6>>, <<-579169, -6>>, <<309284, -6>>>>
      [] fc = 18000 /\ gainDB10 = 25 /\ Q100 = 85 /\ fs = 96000 ->
         <<<<119670, -5>>, <<-693091, -6>>, <<370120, -6>>, <<-410483, -6>>, <<284211, -6>>>>

\* designBell(filter, fc, gainDB, Q, fs): <<b0, b1, b2, a1, a2>> of the RBJ
\* peaking filter, tabulated likewise.
designBell(fc, gainDB10, Q100, fs) ==
    CASE fc = 19845 /\ gainDB10 = 50 /\ Q100 = 60 /\ fs = 44100 ->
         <<<<112597, -5>>, <<159425, -5>>, <<550327, -6>>, <<159425, -5>>, <<676294, -6>>>>
      [] fc = 15000 /\ gainDB10 = -11 /\ Q100 = 120 /\ fs = 44100 ->
         <<<<967584, -6>>, <<780663, -6>>, <<487388, -6>>, <<780663, -6>>, <<454972, -6>>>>
      [] fc = 3000 /\ gainDB10 = -10 /\ Q100 = 150 /\ fs = 44100 ->
         <<<<986115, -6>>, <<-158769, -5>>, <<758530, -6>>, <<-158769, -5>>, <<744646, -6>>>>
      [] fc = 19845 /\ gainDB10 = -50 /\ Q100 = 60 /\ fs = 44100 ->
         <<<<888126, -6>>, <<141589, -5>>, <<600634, -6>>, <<141589, -5>>, <<488759, -6>>>>
      [] fc = 15000 /\ gainDB10 = 11 /\ Q100 = 120 /\ fs = 44100 ->
         <<<<103350, -5>>, <<806817, -6>>, <<470214, -6>>, <<806817, -6>>, <<503716, -6>>>>
      [] fc = 3000 /\ gainDB10 = 10 /\ Q100 = 150 /\ fs = 44100 ->
         <<<<101408, -5>>, <<-161004, -5>>, <<755131, -6>>, <<-161004, -5>>, <<769211, -6>>>>
      [] fc = 20000 /\ gainDB10 = 50 /\ Q100 = 60 /\ fs = 48000 ->
         <<<<118528, -5>>, <<131970, -5>>, <<338576, -6>>, <<131970, -5>>, <<523861, -6>>>>
      [] fc = 15000 /\ gainDB10 = -11 /\ Q100 = 120 /\ fs = 48000 ->
         <<<<965405, -6>>, <<542770, -6>>, <<452921, -6>>, <<542770, -6>>, <<418326, -6>>>>
      [] fc = 3000 /\ gainDB10 = -10 /\ Q100 = 150 /\ fs = 48000 ->
         <<<<987055, -6>>, <<-162781, -5>>, <<774874, -6>>, <<-162781, -5>>, <<761929, -6>>>>
      [] fc = 20000 /\ gainDB10 = -50 /\ Q100 = 60 /\ fs = 48000 ->
         <<<<843679, -6>>, <<111341, -5>>, <<441970, -6>>, <<111341, -5>>, <<285650, -6>>>>
      [] fc = 15000 /\ gainDB10 = 11 /\ Q100 = 120 /\ fs = 48000 ->
         <<<<103584, -5>>, <<562220, -6>>, <<433316, -6>>, <<562220, -6>>, <<469151, -6>>>>
      [] fc = 3000 /\ gainDB10 = 10 /\ Q100 = 150 /\ fs = 48000 ->
         <<<<101311, -5>>, <<-164916, -5>>, <<771921, -6>>, <<-164916, -5>>, <<785036, -6>>>>
      [] fc = 20000 /\ gainDB10 = 50 /\ Q100 = 60 /\ fs = 88200 ->
         <<<<129734, -5>>, <<-179847, -6>>, <<-614480, -7>>, <<-179847, -6>>, <<235895, -6>>>>
      [] fc = 15000 /\ gainDB10 = -11 /\ Q100 = 120 /\ fs = 88200 ->
         <<<<966681, -6>>, <<-693087, -6>>, <<473113, -6>>, <<-693087, -6>>, <<439794, -6>>>>
      [] fc = 3000 /\ gainDB10 = -10 /\ Q100 = 150 /\ fs = 88200 ->
         <<<<992424, -6>>, <<-181833, -5>>, <<868239, -6>>, <<-181833, -5>>, <<860663, -6>>>>
      [] fc = 20000 /\ gainDB10 = -50 /\ Q100 = 60 /\ fs = 88200 ->
         <<<<770806, -6>>, <<-138627, -6>>, <<181830, -6>>, <<-138627, -6>>, <<-473645, -7>>>>
      [] fc = 15000 /\ gainDB10 = 11 /\ Q100 = 120 /\ fs = 88200 ->
         <<<<103447, -5>>, <<-716976, -6>>, <<454953, -6>>, <<-716976, -6>>, <<489420, -6>>>>
      [] fc = 3000 /\ gainDB10 = 10 /\ Q100 = 150 /\ fs = 88200 ->
         <<<<100763, -5>>, <<-183221, -5>>, <<867233, -6>>, <<-183221, -5>>, <<874867, -6>>>>
      [] fc = 20000 /\ gainDB10 = 50 /\ Q100 = 60 /\ fs = 96000 ->
         <<<<129295, -5>>, <<-322794, -6>>, <<-457729, -7>>, <<-322794, -6>>, <<247179, -6>>>>
      [] fc = 15000 /\ gainDB10 = -11 /\ Q100 = 120 /\ fs = 96000 ->
         <<<<967932, -6>>, <<-811589, -6>>, <<492890, -6>>, <<-811589, -6>>, <<460822, -6>>>>
      [] fc = 3000 /\ gainDB10 = -10 /\ Q100 = 150 /\ fs = 96000 ->
         <<<<992992, -6>>, <<-183516, -5>>, <<878120, -6>>, <<-183516, -5>>, <<871112, -6>>>>
      [] fc = 20000 /\ gainDB10 = -50 /\ Q100 = 60 /\ fs = 96000 ->
         <<<<773424, -6>>, <<-249656, -6>>, <<191174, -6>>, <<-249656, -6>>, <<-354019, -7>>>>
      [] fc = 15000 /\ gainDB10 = 11 /\ Q100 = 120 /\ fs = 96000 ->
         <<<<103313, -5>>, <<-838477, -6>>, <<476089, -6>>, <<-838477, -6>>, <<509219, -6>>>>
      [] fc = 3000 /\ gainDB10 = 10 /\ Q100 = 150 /\ fs = 96000 ->
         <<<<100706, -5>>, <<-184811, -5>>, <<877260, -6>>, <<-184811, -5>>, <<884317, -6>>>>
      [] fc = 20000 /\ gainDB10 = 50 /\ Q100 = 60 /\ fs = 176400 ->
         <<<<122571, -5>>, <<-107466, -5>>, <<194279, -6>>, <<-107466, -5>>, <<419986, -6>>>>
      [] fc = 15000 /\ gainDB10 = -11 /\ Q100 = 120 /\ fs = 176400 ->
         <<<<978069, -6>>, <<-140392, -5>>, <<653190, -6>>, <<-140392, -5>>, <<631259, -6>>>>
      [] fc = 3000 /\ gainDB10 = -10 /\ Q100 = 150 /\ fs = 176400 ->
         <<<<996053, -6>>, <<-191642, -5>>, <<931364, -6>>, <<-191642, -5>>, <<927418, -6>>>>
      [] fc = 20000 /\ gainDB10 = -50 /\ Q100 = 60 /\ fs = 176400 ->
         <<<<815856, -6>>, <<-876766, -6>>, <<342648, -6>>, <<-876766, -6>>, <<158504, -6>>>>
      [] fc = 15000 /\ gainDB10 = 11 /\ Q100 = 120 /\ fs = 176400 ->
         <<<<102242, -5>>, <<-143540, -5>>, <<645413, -6>>, <<-143540, -5>>, <<667836, -6>>>>
      [] fc = 3000 /\ gainDB10 = 10 /\ Q100 = 150 /\ fs = 176400 ->
         <<<<100396, -5>>, <<-192402, -5>>, <<931092, -6>>, <<-192402, -5>>, <<935055, -6>>>>
      [] fc = 20000 /\ gainDB10 = 50 /\ Q100 = 60 /\ fs = 192000 ->
         <<<<121448, -5>>, <<-114944, -5>>, <<234351, -6>>, <<-114944, -5>>, <<448832, -6>>>>
      [] fc = 15000 /\ gainDB10 = -11 /\ Q100 = 120 /\ fs = 192000 ->
         <<<<979416, -6>>, <<-145862, -5>>, <<674495, -6>>, <<-145862, -5>>, <<653911, -6>>>>
      [] fc = 3000 /\ gainDB10 = -10 /\ Q100 = 150 /\ fs = 192000 ->
         <<<<996362, -6>>, <<-192379, -5>>, <<936736, -6>>, <<-192379, -5>>, <<933099, -6>>>>
      [] fc = 20000 /\ gainDB10 = -50 /\ Q100 = 60 /\ fs = 192000 ->
         <<<<823397, -6>>, <<-946442, -6>>, <<369567, -6>>, <<-946442, -6>>, <<192964, -6>>>>
      [] fc = 15000 /\ gainDB10 = 11 /\ Q100 = 120 /\ fs = 192000 ->
         <<<<102102, -5>>, <<-148927, -5>>, <<667654, -6>>, <<-148927, -5>>, <<688671, -6>>>>
      [] fc = 3000 /\ gainDB10 = 10 /\ Q100 = 150 /\ fs = 192000 ->
         <<<<100365, -5>>, <<-193081, -5>>, <<936505, -6>>, <<-193081, -5>>, <<940156, -6>>>>
      [] fc = 20000 /\ gainDB10 = 50 /\ Q100 = 60 /\ fs = 352800 ->
         <<<<113925, -5>>, <<-153908, -5>>, <<502906, -6>>, <<-153908, -5>>, <<642157, -6>>>>
      [] fc = 15000 /\ gainDB10 = -11 /\ Q100 = 120 /\ fs = 352800 ->
         <<<<987523, -6>>, <<-172672, -5>>, <<802699, -6>>, <<-172672, -5>>, <<790222, -6>>>>
      [] fc = 3000 /\ gainDB10 = -10 /\ Q100 = 150 /\ fs = 352800 ->
         <<<<997987, -6>>, <<-196019, -5>>, <<964999, -6>>, <<-196019, -5>>, <<962986, -6>>>>
      [] fc = 20000 /\ gainDB10 = -50 /\ Q100 = 60 /\ fs = 352800 ->
         <<<<877770, -6>>, <<-135096, -5>>, <<563666, -6>>, <<-135096, -5>>, <<441436, -6>>>>
      [] fc = 15000 /\ gainDB10 = 11 /\ Q100 = 120 /\ fs = 352800 ->
         <<<<101263, -5>>, <<-174854, -5>>, <<800206, -6>>, <<-174854, -5>>, <<812840, -6>>>>
      [] fc = 3000 /\ gainDB10 = 10 /\ Q100 = 150 /\ fs = 352800 ->
         <<<<100202, -5>>, <<-196414, -5>>, <<964928, -6>>, <<-196414, -5>>, <<966945, -6>>>>
      [] fc = 20000 /\ gainDB10 = 50 /\ Q100 = 60 /\ fs = 384000 ->
         <<<<113018, -5>>, <<-157707, -5>>, <<535274, -6>>, <<-157707, -5>>, <<665457, -6>>>>
      [] fc = 15000 /\ gainDB10 = -11 /\ Q100 = 120 /\ fs = 384000 ->
         <<<<988419, -6>>, <<-175118, -5>>, <<816864, -6>>, <<-175118, -5>>, <<805283, -6>>>>
      [] fc = 3000 /\ gainDB10 = -10 /\ Q100 = 150 /\ fs = 384000 ->
         <<<<998148, -6>>, <<-196357, -5>>, <<967792, -6>>, <<-196357, -5>>, <<965940, -6>>>>
      [] fc = 20000 /\ gainDB10 = -50 /\ Q100 = 60 /\ fs = 384000 ->
         <<<<884812, -6>>, <<-139541, -5>>, <<588805, -6>>, <<-139541, -5>>, <<473616, -6>>>>
      [] fc = 15000 /\ gainDB10 = 11 /\ Q100 = 120 /\ fs = 384000 ->
         <<<<101172, -5>>, <<-177170, -5>>, <<814718, -6>>, <<-177170, -5>>, <<826434, -6>>>>
      [] fc = 3000 /\ gainDB10 = 10 /\ Q100 = 150 /\ fs = 384000 ->
         <<<<100186, -5>>, <<-196722, -5>>, <<967732, -6>>, <<-196722, -5>>, <<969588, -6>>>>
      \* BiasShielding.cpp designs (HFCut, HFRestore)
      [] fc = 6000 /\ gainDB10 = -3 /\ Q100 = 220 /\ fs = 32000 ->
         <<<<994024, -6>>, <<-630643, -6>>, <<653924, -6>>, <<-630643, -6>>, <<647948, -6>>>>
      [] fc = 6000 /\ gainDB10 = 3 /\ Q100 = 220 /\ fs = 32000 ->
         <<<<100601, -5>>, <<-634434, -6>>, <<651844, -6>>, <<-634434, -6>>, <<657856, -6>>>>
      [] fc = 7000 /\ gainDB10 = -5 /\ Q100 = 180 /\ fs = 32000 ->
         <<<<987750, -6>>, <<-304734, -6>>, <<574267, -6>>, <<-304734, -6>>, <<562017, -6>>>>
      [] fc = 7000 /\ gainDB10 = 5 /\ Q100 = 180 /\ fs = 32000 ->
         <<<<101240, -5>>, <<-308514, -6>>, <<568987, -6>>, <<-308514, -6>>, <<581389, -6>>>>
      [] fc = 8000 /\ gainDB10 = -2 /\ Q100 = 250 /\ fs = 32000 ->
         <<<<996170, -6>>, <<-101857, -21>>, <<667287, -6>>, <<-101857, -21>>, <<663456, -6>>>>
      [] fc = 8000 /\ gainDB10 = 2 /\ Q100 = 250 /\ fs = 32000 ->
         <<<<100385, -5>>, <<-102249, -21>>, <<666007, -6>>, <<-102249, -21>>, <<669852, -6>>>>
      [] fc = 10000 /\ gainDB10 = -3 /\ Q100 = 180 /\ fs = 32000 ->
         <<<<992971, -6>>, <<606902, -6>>, <<592941, -6>>, <<606902, -6>>, <<585913, -6>>>>
      [] fc = 10000 /\ gainDB10 = 3 /\ Q100 = 180 /\ fs = 32000 ->
         <<<<100708, -5>>, <<611199, -6>>, <<590060, -6>>, <<611199, -6>>, <<597139, -6>>>>
      [] fc = 14400 /\ gainDB10 = -15 /\ Q100 = 70 /\ fs = 32000 ->
         <<<<969237, -6>>, <<153318, -5>>, <<642844, -6>>, <<153318, -5>>, <<612081, -6>>>>
      [] fc = 14400 /\ gainDB10 = -8 /\ Q100 = 80 /\ fs = 32000 ->
         <<<<985199, -6>>, <<158214, -5>>, <<678366, -6>>, <<158214, -5>>, <<663564, -6>>>>
      [] fc = 14400 /\ gainDB10 = 8 /\ Q100 = 80 /\ fs = 32000 ->
         <<<<101502, -5>>, <<160591, -5>>, <<673534, -6>>, <<160591, -5>>, <<688557, -6>>>>
      [] fc = 14400 /\ gainDB10 = 15 /\ Q100 = 70 /\ fs = 32000 ->
         <<<<103174, -5>>, <<158184, -5>>, <<631508, -6>>, <<158184, -5>>, <<663247, -6>>>>
      [] fc = 6000 /\ gainDB10 = -3 /\ Q100 = 220 /\ fs = 44100 ->
         <<<<994957, -6>>, <<-111767, -5>>, <<707955, -6>>, <<-111767, -5>>, <<702912, -6>>>>
      [] fc = 6000 /\ gainDB10 = 3 /\ Q100 = 220 /\ fs = 44100 ->
         <<<<100507, -5>>, <<-112333, -5>>, <<706475, -6>>, <<-112333, -5>>, <<711543, -6>>>>
      [] fc = 7000 /\ gainDB10 = -5 /\ Q100 = 180 /\ fs = 44100 ->
         <<<<989167, -6>>, <<-874966, -6>>, <<623535, -6>>, <<-874966, -6>>, <<612703, -6>>>>
      [] fc = 7000 /\ gainDB10 = 5 /\ Q100 = 180 /\ fs = 44100 ->
         <<<<101095, -5>>, <<-884548, -6>>, <<619412, -6>>, <<-884548, -6>>, <<630364, -6>>>>
      [] fc = 8000 /\ gainDB10 = -2 /\ Q100 = 250 /\ fs = 44100 ->
         <<<<996466, -6>>, <<-705803, -6>>, <<692988, -6>>, <<-705803, -6>>, <<689454, -6>>>>
      [] fc = 8000 /\ gainDB10 = 2 /\ Q100 = 250 /\ fs = 44100 ->
         <<<<100355, -5>>, <<-708307, -6>>, <<691899, -6>>, <<-708307, -6>>, <<695446, -6>>>>
      [] fc = 10000 /\ gainDB10 = -3 /\ Q100 = 180 /\ fs = 44100 ->
         <<<<992582, -6>>, <<-227443, -6>>, <<570397, -6>>, <<-227443, -6>>, <<562978, -6>>>>
      [] fc = 10000 /\ gainDB10 = 3 /\ Q100 = 180 /\ fs = 44100 ->
         <<<<100747, -5>>, <<-229143, -6>>, <<567186, -6>>, <<-229143, -6>>, <<574660, -6>>>>
      [] fc = 19000 /\ gainDB10 = -15 /\ Q100 = 70 /\ fs = 44100 ->
         <<<<960841, -6>>, <<136622, -5>>, <<545368, -6>>, <<136622, -5>>, <<506209, -6>>>>
      [] fc = 19000 /\ gainDB10 = -8 /\ Q100 = 80 /\ fs = 44100 ->
         <<<<980993, -6>>, <<142225, -5>>, <<586985, -6>>, <<142225, -5>>, <<567978, -6>>>>
      [] fc = 19000 /\ gainDB10 = 8 /\ Q100 = 80 /\ fs = 44100 ->
         <<<<101937, -5>>, <<144980, -5>>, <<578983, -6>>, <<144980, -5>>, <<598358, -6>>>>
      [] fc = 19000 /\ gainDB10 = 15 /\ Q100 = 70 /\ fs = 44100 ->
         <<<<104075, -5>>, <<142190, -5>>, <<526840, -6>>, <<142190, -5>>, <<567594, -6>>>>
      [] fc = 6000 /\ gainDB10 = -3 /\ Q100 = 220 /\ fs = 48000 ->
         <<<<995229, -6>>, <<-121548, -5>>, <<723714, -6>>, <<-121548, -5>>, <<718943, -6>>>>
      [] fc = 6000 /\ gainDB10 = 3 /\ Q100 = 220 /\ fs = 48000 ->
         <<<<100479, -5>>, <<-122130, -5>>, <<722390, -6>>, <<-122130, -5>>, <<727183, -6>>>>
      [] fc = 7000 /\ gainDB10 = -5 /\ Q100 = 180 /\ fs = 48000 ->
         <<<<989658, -6>>, <<-992429, -6>>, <<640585, -6>>, <<-992429, -6>>, <<630243, -6>>>>
      [] fc = 7000 /\ gainDB10 = 5 /\ Q100 = 180 /\ fs = 48000 ->
         <<<<101045, -5>>, <<-100280, -5>>, <<636829, -6>>, <<-100280, -5>>, <<647279, -6>>>>
      [] fc = 8000 /\ gainDB10 = -2 /\ Q100 = 250 /\ fs = 48000 ->
         <<<<996606, -6>>, <<-850911, -6>>, <<705216, -6>>, <<-850911, -6>>, <<701822, -6>>>>
      [] fc = 8000 /\ gainDB10 = 2 /\ Q100 = 250 /\ fs = 48000 ->
         <<<<100341, -5>>, <<-853809, -6>>, <<704212, -6>>, <<-853809, -6>>, <<707618, -6>>>>
      [] fc = 10000 /\ gainDB10 = -3 /\ Q100 = 180 /\ fs = 48000 ->
         <<<<992720, -6>>, <<-406633, -6>>, <<578389, -6>>, <<-406633, -6>>, <<571108, -6>>>>
      [] fc = 10000 /\ gainDB10 = 3 /\ Q100 = 180 /\ fs = 48000 ->
         <<<<100733, -5>>, <<-409615, -6>>, <<575297, -6>>, <<-409615, -6>>, <<582630, -6>>>>
      [] fc = 19000 /\ gainDB10 = -15 /\ Q100 = 70 /\ fs = 48000 ->
         <<<<948994, -6>>, <<107643, -5>>, <<407818, -6>>, <<107643, -5>>, <<356811, -6>>>>
      [] fc = 19000 /\ gainDB10 = -8 /\ Q100 = 80 /\ fs = 48000 ->
         <<<<974932, -6>>, <<113465, -5>>, <<455267, -6>>, <<113465, -5>>, <<430199, -6>>>>
      [] fc = 19000 /\ gainDB10 = 8 /\ Q100 = 80 /\ fs = 48000 ->
         <<<<102571, -5>>, <<116383, -5>>, <<441260, -6>>, <<116383, -5>>, <<466973, -6>>>>
      [] fc = 19000 /\ gainDB10 = 15 /\ Q100 = 70 /\ fs = 48000 ->
         <<<<105375, -5>>, <<113429, -5>>, <<375989, -6>>, <<113429, -5>>, <<429737, -6>>>>
      [] fc = 6000 /\ gainDB10 = -3 /\ Q100 = 220 /\ fs = 96000 ->
         <<<<997240, -6>>, <<-169755, -5>>, <<840170, -6>>, <<-169755, -5>>, <<837410, -6>>>>
      [] fc = 6000 /\ gainDB10 = 3 /\ Q100 = 220 /\ fs = 96000 ->
         <<<<100277, -5>>, <<-170224, -5>>, <<839728, -6>>, <<-170224, -5>>, <<842495, -6>>>>
      [] fc = 7000 /\ gainDB10 = -5 /\ Q100 = 180 /\ fs = 96000 ->
         <<<<993721, -6>>, <<-159239, -5>>, <<781776, -6>>, <<-159239, -5>>, <<775496, -6>>>>
      [] fc = 7000 /\ gainDB10 = 5 /\ Q100 = 180 /\ fs = 96000 ->
         <<<<100632, -5>>, <<-160246, -5>>, <<780397, -6>>, <<-160246, -5>>, <<786716, -6>>>>
      [] fc = 8000 /\ gainDB10 = -2 /\ Q100 = 250 /\ fs = 96000 ->
         <<<<997909, -6>>, <<-157294, -5>>, <<818361, -6>>, <<-157294, -5>>, <<816270, -6>>>>
      [] fc = 8000 /\ gainDB10 = 2 /\ Q100 = 250 /\ fs = 96000 ->
         <<<<100210, -5>>, <<-157623, -5>>, <<817980, -6>>, <<-157623, -5>>, <<820076, -6>>>>
      [] fc = 10000 /\ gainDB10 = -3 /\ Q100 = 180 /\ fs = 96000 ->
         <<<<995017, -6>>, <<-135379, -5>>, <<711401, -6>>, <<-135379, -5>>, <<706418, -6>>>>
      [] fc = 10000 /\ gainDB10 = 3 /\ Q100 = 180 /\ fs = 96000 ->
         <<<<100501, -5>>, <<-136057, -5>>, <<709956, -6>>, <<-136057, -5>>, <<714964, -6>>>>
      [] fc = 19000 /\ gainDB10 = -15 /\ Q100 = 70 /\ fs = 96000 ->
         <<<<932685, -6>>, <<-370028, -6>>, <<218475, -6>>, <<-370028, -6>>, <<151160, -6>>>>
      [] fc = 19000 /\ gainDB10 = -8 /\ Q100 = 80 /\ fs = 96000 ->
         <<<<966334, -6>>, <<-396907, -6>>, <<268444, -6>>, <<-396907, -6>>, <<234779, -6>>>>
      [] fc = 19000 /\ gainDB10 = 8 /\ Q100 = 80 /\ fs = 96000 ->
         <<<<103484, -5>>, <<-410734, -6>>, <<242958, -6>>, <<-410734, -6>>, <<277796, -6>>>>
      [] fc = 19000 /\ gainDB10 = 15 /\ Q100 = 70 /\ fs = 96000 ->
         <<<<107217, -5>>, <<-396735, -6>>, <<162070, -6>>, <<-396735, -6>>, <<234243, -6>>>>

\* The 2nd-order Butterworth high-pass at 5 Hz (Q = 0.7071) designed inline by
\* HybridTapeProcessor::setSampleRate: <<b0, b1, b2, a1, a2>>.
dcBlockerDesign(fs) ==
    CASE fs = 44100 -> <<<<999496, -6>>, <<-199899, -5>>, <<999496, -6>>, <<-199899, -5>>, <<998993, -6>>>>
      [] fs = 48000 -> <<<<999537, -6>>, <<-199907, -5>>, <<999537, -6>>, <<-199907, -5>>, <<999075, -6>>>>
      [] fs = 88200 -> <<<<999748, -6>>, <<-199950, -5>>, <<999748, -6>>, <<-199950, -5>>, <<999496, -6>>>>
      [] fs = 96000 -> <<<<999769, -6>>, <<-199954, -5>>, <<999769, -6>>, <<-199954, -5>>, <<999537, -6>>>>
      [] fs = 176400 -> <<<<999874, -6>>, <<-199975, -5>>, <<999874, -6>>, <<-199975, -5>>, <<999748, -6>>>>
      [] fs = 192000 -> <<<<999884, -6>>, <<-199977, -5>>, <<999884, -6>>, <<-199977, -5>>, <<999769, -6>>>>
      [] fs = 352800 -> <<<<999937, -6>>, <<-199987, -5>>, <<999937, -6>>, <<-199987, -5>>, <<999874, -6>>>>
      [] fs = 384000 -> <<<<999942, -6>>, <<-199988, -5>>, <<999942, -6>>, <<-199988, -5>>, <<999884, -6>>>>


(***************************************************************************)
(* ReEmphasis / DeEmphasis: five cascaded sections each.                   *)
(***************************************************************************)
\* "if (f > nyquist * 0.9) f = nyquist * 0.9" with nyquist = fs / 2, in Hz.
NyquistClamp(fc, fs) == IF fc * 20 > fs * 9 THEN (fs * 9) \div 20 ELSE fc

\* The five frequencies updateCoefficients passes to the design functions:
\* shelf1, shelf2, bell1, bell2, bell3.
EmphasisDesignFrequencies(fs) ==
    <<3000, NyquistClamp(10000, fs), NyquistClamp(20000, fs), 15000, 3000>>

\* ReEmphasis::updateCoefficients(), DeEmphasis::updateCoefficients():
\* sign is +1 for the boost (re-emphasis) and -1 for its inverse.
EmphasisUpdateCoefficients(em, sign) ==
    [em EXCEPT
       !.shelf1 = WithCoeffs(@, designHighShelf(EmphasisDesignFrequencies(em.fs)[1],
                                                sign * 40, 50, em.fs)),
       !.shelf2 = WithCoeffs(@, designHighShelf(EmphasisDesignFrequencies(em.fs)[2],
                                                sign * 50, 71, em.fs)),
       !.bell1 = WithCoeffs(@, designBell(EmphasisDesignFrequencies(em.fs)[3],
                                          sign * 50, 60, em.fs)),
       !.bell2 = WithCoeffs(@, designBell(EmphasisDesignFrequencies(em.fs)[4],
                                          sign * (-11), 120, em.fs)),
       !.bell3 = WithCoeffs(@, designBell(EmphasisDesignFrequencies(em.fs)[5],
                                          sign * (-10), 150, em.fs))]

\* setSampleRate(sampleRate): fs = sampleRate; updateCoefficients().
EmphasisSetSampleRate(em, sampleRate, sign) ==
    EmphasisUpdateCoefficients([em EXCEPT !.fs = sampleRate], sign)

\* reset(): clears the state of the five sections.
EmphasisReset(em) ==
    [em EXCEPT !.shelf1 = BiquadReset(@), !.shelf2 = BiquadReset(@),
               !.bell1 = BiquadReset(@), !.bell2 = BiquadReset(@),
               !.bell3 = BiquadReset(@)]

\* The constructors: fs = 48000, updateCoefficients(), reset().
EmphasisNew(sign) ==
    EmphasisReset(EmphasisUpdateCoefficients(
        [fs |-> 48000, shelf1 |-> Biquad0, shelf2 |-> Biquad0,
         bell1 |-> Biquad0, bell2 |-> Biquad0, bell3 |-> Biquad0], sign))

\* processSample(input): shelf1, shelf2, bell1, bell2, bell3 in series;
\* returns <<filter after the call, output>>.
EmphasisProcessSample(em, input) ==
    LET r1 == BiquadProcess(em.shelf1, input)
        r2 == BiquadProcess(em.shelf2, r1[2])
        r3 == BiquadProcess(em.bell1, r2[2])
        r4 == BiquadProcess(em.bell2, r3[2])
        r5 == BiquadProcess(em.bell3, r4[2])
    IN  << [em EXCEPT !.shelf1 = r1[1], !.shelf2 = r2[1], !.bell1 = r3[1],
                      !.bell2 = r4[1], !.bell3 = r5[1]],
           r5[2] >>


(***************************************************************************)
(* HFRestore / HFCut (BiasShielding.cpp): five cascaded sections each.  A  *)
(* design is the argument list of one design call: the function, fc in Hz, *)
(* the gain in tenths of a dB and Q in hundredths.                         *)
(***************************************************************************)
\* std::min(fc, nyquist * 0.85) with nyquist = fs / 2, in Hz.
NyquistClamp85(fc, fs) == IF fc * 40 > fs * 17 THEN (fs * 17) \div 40 ELSE fc

Design(type, fc, gainDB10, Q100) ==
    [type |-> type, fc |-> fc, gainDB10 |-> gainDB10, Q100 |-> Q100]

\* The designs of HFRestore::updateCoefficients: shelf1, shelf2, bell1,
\* bell2, bell3.
HFRestoreDesigns(ampexMode, fs) ==
    IF ampexMode
    THEN << Design("highShelf", NyquistClamp(12000, fs), 55, 100),
            Design("highShelf", NyquistClamp85(18000, fs), 25, 85),
            Design("bell", NyquistClamp(10000, fs), 3, 180),
            Design("bell", NyquistClamp(19000, fs), 8, 80),
            Design("bell", 8000, -2, 250) >>
    ELSE << Design("highShelf", NyquistClamp(9000, fs), 75, 100),
            Design("highShelf", NyquistClamp85(16000, fs), 45, 85),
            Design("bell", NyquistClamp(7000, fs), 5, 180),
            Design("bell", NyquistClamp(19000, fs), 15, 70),
            Design("bell", 6000, -3, 220) >>

\* HFCut::updateCoefficients with the sign of the bell3 gain kept as in
\* HFRestore.
HFCutDesignsBell3Boost(ampexMode, fs) ==
    IF ampexMode
    THEN << Design("highShelf", NyquistClamp(12000, fs), -55, 100),
            Design("highShelf", NyquistClamp85(18000, fs), -25, 85),
            Design("bell", NyquistClamp(10000, fs), -3, 180),
            Design("bell", NyquistClamp(19000, fs), -8, 80),
            Design("bell", 8000, -2, 250) >>
    ELSE << Design("highShelf", NyquistClamp(9000, fs), -75, 100),
            Design("highShelf", NyquistClamp85(16000, fs), -45, 85),
            Design("bell", NyquistClamp(7000, fs), -5, 180),
            Design("bell", NyquistClamp(19000, fs), -15, 70),
            Design("bell", 6000, -3, 220) >>

\* The designs of HFCut::updateCoefficients.
HFCutDesigns(ampexMode, fs) ==
    IF ampexMode
    THEN << Design("highShelf", NyquistClamp(12000, fs), -55, 100),
            Design("highShelf", NyquistClamp85(18000, fs), -25, 85),
            Design("bell", NyquistClamp(10000, fs), -3, 180),
            Design("bell", NyquistClamp(19000, fs), -8, 80),
            Design("bell", 8000, 2, 250) >>
    ELSE << Design("highShelf", NyquistClamp(9000, fs), -75, 100),
            Design("highShelf", NyquistClamp85(16000, fs), -45, 85),
            Design("bell", NyquistClamp(7000, fs), -5, 180),
            Design("bell", NyquistClamp(19000, fs), -15, 70),
            Design("bell", 6000, 3, 220) >>

\* The design calls at the end of updateCoefficients: the first two sections
\* by designHighShelf, the other three by designBell.
ShieldingDesigned(h, d) ==
    [h EXCEPT
       !.designs = d,
       !.shelf1 = WithCoeffs(@, designHighShelf(d[1].fc, d[1].gainDB10, d[1].Q100, h.fs)),
       !.shelf2 = WithCoeffs(@, designHighShelf(d[2].fc, d[2].gainDB10, d[2].Q100, h.fs)),
       !.bell1 = WithCoeffs(@, designBell(d[3].fc, d[3].gainDB10, d[3].Q100, h.fs)),
       !.bell2 = WithCoeffs(@, designBell(d[4].fc, d[4].gainDB10, d[4].Q100, h.fs)),
       !.bell3 = WithCoeffs(@, designBell(d[5].fc, d[5].gainDB10, d[5].Q100, h.fs))]

HFRestoreUpdateCoefficients(h) ==
    ShieldingDesigned(h, HFRestoreDesigns(h.ampexMode, h.fs))
HFCutUpdateCoefficients(h) ==
    ShieldingDesigned(h, HFCutDesigns(h.ampexMode, h.fs))

\* The members with their default initialisers.
ShieldingMembers ==
    [fs |-> 48000, ampexMode |-> TRUE, designs |-> << >>,
     shelf1 |-> Biquad0, shelf2 |-> Biquad0,
     bell1 |-> Biquad0, bell2 |-> Biquad0, bell3 |-> Biquad0]

\* processSample(input) of HFRestore and of HFCut: the five sections in the
\* order shelf1, shelf2, bell1, bell2, bell3.
ShieldingProcessSample(h, input) == EmphasisProcessSample(h, input)


(***************************************************************************)
(* MachineEQ (MachineEQ.cpp): twelve Master sections and ten Tracks         *)
(* sections.  A design is the argument list of one setHighPass, setBell or *)
(* setLowPass call: fc in tenths of a Hz, Q in ten-thousandths, the gain   *)
(* in hundredths of a dB and the sample rate.  The coefficients are a      *)
(* function of these arguments; the object is kept as the rate its         *)
(* sections were last designed for and its delay elements.                 *)
(***************************************************************************)
\* The calls of MachineEQ::updateCoefficients, in the order of the statements.
MachineEQDesigns(fs) ==
    LET HP2(fc10, Q) == [type |-> "highPass", fc10 |-> fc10, Q10000 |-> Q,
                         gainDB100 |-> 0, fs |-> fs]
        Bell(fc10, Q, gain) == [type |-> "bell", fc10 |-> fc10, Q10000 |-> Q,
                                gainDB100 |-> gain, fs |-> fs]
        First(type, fc10) == [type |-> type, fc10 |-> fc10, Q10000 |-> 0,
                              gainDB100 |-> 0, fs |-> fs]
    IN  << HP2(208, 7071),
           Bell(280, 25000, 40), Bell(400, 18000, 95), Bell(700, 20000, -30),
           Bell(1050, 20000, 10), Bell(1500, 20000, -20), Bell(3000, 8000, -55),
           Bell(12000, 15000, -25), Bell(30000, 12000, -50),
           Bell(160000, 15000, -50), Bell(200000, 6000, 30),
           First("firstOrderLowPass", 400000),
           HP2(220, 10000), First("firstOrderHighPass", 220),
           Bell(495, 15000, 60), Bell(720, 20700, -100), Bell(1100, 10000, 180),
           Bell(1800, 10000, -70), Bell(4000, 15000, 10), Bell(20000, 15000, 15),
           Bell(100000, 25000, -10), Bell(180000, 12000, 20) >>

\* MachineEQ(): the default members, then updateCoefficients().  The delay
\* elements: z1 and z2 of an EQBiquad, z1 of a FirstOrderFilter.
MachineEQNew ==
    [fs |-> 48000, currentMachine |-> "Ampex", designedFor |-> 48000,
     z |-> [i \in 1 .. 22 |-> IF i \in {12, 14} THEN <<Zero>> ELSE <<Zero, Zero>>]]


(***************************************************************************)
(* JilesAthertonCore.  A core is a record of its parameters, its derived   *)
(* values and its three state words.                                       *)
(***************************************************************************)
Tiny == F(1, -12)
SmallX == F(1, -4)

\* struct Parameters with its default member initialisers.
DefaultParameters ==
    [M_s |-> F(350000, 0), a |-> F(22000, 0), k |-> F(27500, 0),
     c |-> F(17, -2), alpha |-> F(16, -4)]

\* JilesAthertonCore(): default members, then reset().
JACoreNew ==
    [params |-> DefaultParameters, sampleRate |-> 48000,
     T |-> FDiv(One, F(48000, 0)),
     M_n1 |-> Zero, H_n1 |-> Zero, H_d_n1 |-> Zero,
     oneOverA |-> FDiv(One, F(22000, 0)), Q |-> One, cAlpha |-> Zero]

\* setParameters(p): stores p and the derived values; the state words are
\* left as they are.
JASetParameters(ja, p) ==
    [ja EXCEPT !.params = p,
               !.oneOverA = FDiv(One, p.a),
               !.Q = FDiv(FSub(One, p.c), FSub(One, FMul(p.c, p.alpha))),
               !.cAlpha = FMul(p.c, p.alpha)]

\* setSampleRate(sr)
JASetSampleRate(ja, sr) == [ja EXCEPT !.sampleRate = sr, !.T = FDiv(One, F(sr, 0))]

\* reset()
JAReset(ja) == [ja EXCEPT !.M_n1 = Zero, !.H_n1 = Zero, !.H_d_n1 = Zero]

\* langevin(x) = coth(x) - 1/x, with the small-argument branch x / 3.
\* coth(x) - 1/x equals x / (3 + x^2/(5 + x^2/(7 + ...))), the tail of the
\* fraction of tanh; beyond |x| >= 5, coth(x) is +-1 as in Tanh.
langevin(x) ==
    IF FLt(FAbs(x), SmallX) THEN FDiv(x, Three)
    ELSE IF FGe(FAbs(x), Five)
         THEN FSub(IF x[1] > 0 THEN One ELSE FNeg(One), FDiv(One, x))
         ELSE FDiv(x, OddCF(FMul(x, x), 1))

\* langevinD(x) = 1/x^2 - coth(x)^2 + 1, with the small-argument branch 1/3,
\* given L = langevin(x).  With coth = L + 1/x this is 1 - L^2 - 2 L / x.
langevinDFrom(x, L) ==
    IF FLt(FAbs(x), SmallX) THEN FDiv(One, Three)
    ELSE IF FGe(FAbs(x), Five)
         THEN FAdd(FSub(FDiv(One, FMul(x, x)), One), One)
         ELSE FSub(FSub(One, FMul(L, L)), FDiv(FMul(Two, L), x))

langevinD(x) == langevinDFrom(x, langevin(x))

\* <<langevin(x), langevinD(x)>>
langevinPair(x) ==
    CHOOSE r \in {<<L, langevinDFrom(xv, L)>> : xv \in {x}, L \in {langevin(x)}} : TRUE

\* langevin(x) with the small-argument test removed.
langevinTraceNoFallback(x) ==
    [value |-> FSub(FDiv(One, Tanh(x)), FDiv(One, x)), form |-> "coth",
     divisors |-> <<Tanh(x), x>>]

\* langevin(x) as the value it returns, the return statement taken and the
\* divisors of the divisions that statement executes.
langevinTrace(x) ==
    IF FLt(FAbs(x), SmallX)
    THEN [value |-> FDiv(x, Three), form |-> "taylor", divisors |-> <<Three>>]
    ELSE [value |-> langevin(x), form |-> "coth", divisors |-> <<Tanh(x), x>>]

\* langevinD(x), likewise: 1.0 / std::tanh(x), then 1.0 / (x * x).
langevinDTrace(x) ==
    IF FLt(FAbs(x), SmallX)
    THEN [value |-> FDiv(One, Three), form |-> "taylor", divisors |-> <<Three>>]
    ELSE [value |-> langevinD(x), form |-> "coth",
          divisors |-> <<Tanh(x), FMul(x, x)>>]

\* computeDfDM(H, M, delta), given <<L, Ld>> at x = H_eff * oneOverA.
computeDfDMFrom(ja, M, delta, LLd) ==
    LET M_an == FMul(ja.params.M_s, LLd[1])
        dM_an == FMul(FMul(FMul(ja.params.M_s, LLd[2]), ja.oneOverA), ja.params.alpha)
        M_diff == FSub(M_an, M)
        delta_k == FMul(delta, ja.params.k)
        denom == FSub(delta_k, FMul(ja.params.alpha, M_diff))
    IN  IF FLt(FAbs(denom), Tiny) THEN Zero
        ELSE FDiv(FDiv(FSub(dM_an, One), denom), FSub(One, ja.cAlpha))

\* computeDfDM(H, M, delta)
computeDfDM(ja, H, M, delta) ==
    computeDfDMFrom(ja, M, delta,
        langevinPair(FMul(FAdd(H, FMul(ja.params.alpha, M)), ja.oneOverA)))

\* The final statement of one Newton-Raphson iteration:
\* M = std::clamp(M, -params.M_s, params.M_s).
ClampToPhysicalLimits(M, M_s) == FClamp(M, FNeg(M_s), M_s)

\* The value of M before the final clamp of one iteration of solveNR8, given
\* <<L, Ld>> at x = H_eff * oneOverA and dfdm = computeDfDM(H, M, delta).
NRUpdateFrom(ja, H_d, delta, M, LLd, dfdm) ==
    LET M_an == FMul(ja.params.M_s, LLd[1])
        dM_an_dM == FMul(FMul(FMul(ja.params.M_s, LLd[2]), ja.oneOverA),
                         ja.params.alpha)
        M_diff == FSub(M_an, M)
        denom == FSub(One, ja.cAlpha)
        delta_k == FMul(delta, ja.params.k)
        dM_dH == IF FGt(FAbs(M_diff), Tiny) /\ FGt(FMul(delta, M_diff), Zero)
                 THEN FDiv(FAdd(FDiv(M_diff,
                                     FSub(delta_k, FMul(ja.params.alpha, M_diff))),
                                FMul(ja.params.c, dM_an_dM)), denom)
                 ELSE FDiv(FMul(ja.params.c, dM_an_dM), denom)
        f == FSub(FSub(M, ja.M_n1), FMul(FMul(ja.T, dM_dH), H_d))
        f_prime == FSub(One, FMul(FMul(ja.T, H_d), dfdm))
    IN  IF FGt(FAbs(f_prime), Tiny) THEN FSub(M, FDiv(f, f_prime)) ELSE M

\* One iteration of the loop of solveNR8 as the divisors of the divisions it
\* executes, in execution order: the irreversible-term denominator on the
\* branch that divides by it, 1 - cAlpha, the divisors of computeDfDM past
\* its test, and f_prime where the update is made.
NRDivisors(ja, H, H_d, delta, M) ==
    LET LLd == langevinPair(FMul(FAdd(H, FMul(ja.params.alpha, M)), ja.oneOverA))
        M_an == FMul(ja.params.M_s, LLd[1])
        dM_an_dM == FMul(FMul(FMul(ja.params.M_s, LLd[2]), ja.oneOverA),
                         ja.params.alpha)
        M_diff == FSub(M_an, M)
        denom == FSub(One, ja.cAlpha)
        delta_k == FMul(delta, ja.params.k)
        irreversible == FSub(delta_k, FMul(ja.params.alpha, M_diff))
        taken == FGt(FAbs(M_diff), Tiny) /\ FGt(FMul(delta, M_diff), Zero)
        dM_dH == IF taken
                 THEN FDiv(FAdd(FDiv(M_diff, irreversible),
                                FMul(ja.params.c, dM_an_dM)), denom)
                 ELSE FDiv(FMul(ja.params.c, dM_an_dM), denom)
        f_prime == FSub(One, FMul(FMul(ja.T, H_d),
                                  computeDfDMFrom(ja, M, delta, LLd)))
    IN  [M_an |-> M_an, taken |-> taken, irreversible |-> irreversible,
         denom |-> denom,
         divisors |->
            (IF taken THEN <<irreversible>> ELSE << >>) \o <<denom>>
            \o (IF FLt(FAbs(irreversible), Tiny) THEN << >>
                ELSE <<irreversible, FSub(One, ja.cAlpha)>>)
            \o (IF FGt(FAbs(f_prime), Tiny) THEN <<f_prime>> ELSE << >>)]

\* The value of M before the final clamp of one iteration of solveNR8.
\* computeDfDM evaluates the Langevin pair at the same H_eff as the loop body.
NRUpdate(ja, H, H_d, delta, M) ==
    CHOOSE r \in
      {NRUpdateFrom(ja, H_d, delta, M, t[1], t[2]) :
         t \in {<<LLd, computeDfDMFrom(ja, M, delta, LLd)>> :
                  LLd \in {langevinPair(FMul(FAdd(H, FMul(ja.params.alpha, M)),
                                              ja.oneOverA))}}} : TRUE

\* One iteration of the loop of solveNR8.
NRStep(ja, H, H_d, delta, M) ==
    CHOOSE r \in {ClampToPhysicalLimits(u, ja.params.M_s) :
                  u \in {NRUpdate(ja, H, H_d, delta, M)}} : TRUE

\* Iterations of the Newton-Raphson loop.
NRIterations == 8

\* The loop of solveNR8 leaving as soon as an iteration no longer moves M.
RECURSIVE NRLoopUntilConverged(_, _, _, _, _, _)
NRLoopUntilConverged(ja, H, H_d, delta, M, i) ==
    IF i >= NRIterations THEN << >>
    ELSE CHOOSE its \in
           {IF Mnext = M THEN <<Mnext>>
            ELSE <<Mnext>> \o NRLoopUntilConverged(ja, H, H_d, delta, Mnext, i + 1) :
              Mnext \in {NRStep(ja, H, H_d, delta, M)}} : TRUE

\* The iterates of solveNR8(H, H_d): its. n iterations appended to the
\* iterates computed so far, starting from the guess M = M_n1.
RECURSIVE NRLoop(_, _, _, _, _, _)
NRLoop(ja, H, H_d, delta, M, i) ==
    IF i >= NRIterations THEN << >>
    ELSE CHOOSE its \in {<<Mnext>> \o NRLoop(ja, H, H_d, delta, Mnext, i + 1) :
                         Mnext \in {NRStep(ja, H, H_d, delta, M)}} : TRUE

\* solveNR8(H, H_d): the sequence of the iterates; the last one is returned.
solveNR8(ja, H, H_d) ==
    NRLoop(ja, H, H_d, IF FGe(H_d, Zero) THEN One ELSE FNeg(One), ja.M_n1, 0)

\* process(H) without the three assignments that update the state.
JAProcessWithoutMemory(ja, H) ==
    CHOOSE r \in {<<ja, its[Len(its)], its>> :
                  its \in {solveNR8(ja, H, FDiv(FSub(H, ja.H_n1), ja.T))}} : TRUE

\* process(H): returns <<core after the call, M, iterates of the solver>>.
JAProcess(ja, H) ==
    CHOOSE r \in {<< [ja EXCEPT !.H_n1 = H, !.H_d_n1 = H_d, !.M_n1 = its[Len(its)]],
                     its[Len(its)], its >> :
                  H_d \in {FDiv(FSub(H, ja.H_n1), ja.T)},
                  its \in {solveNR8(ja, H, FDiv(FSub(H, ja.H_n1), ja.T))}} : TRUE


(***************************************************************************)
(* HybridTapeProcessor.  A processor is a record of its members.  The      *)
(* azimuth delay cachedDelaySamples is kept exactly, in millionths of a    *)
(* sample: microseconds * 1e-6 * fs samples is microseconds * fs of them.  *)
(***************************************************************************)
DELAY_BUFFER_SIZE == 4
NUM_DISPERSIVE_STAGES == 4
MicroPerSample == 1000000
BiasThreshold == F(74, -2)

\* The members after their default initialisers, before the constructor body.
ProcessorMembers ==
    [delayBuffer |-> [i \in 0 .. DELAY_BUFFER_SIZE - 1 |-> Zero],
     delayWriteIndex |-> 0, cachedDelaySamples |-> 0,
     currentBiasStrength |-> F(65, -2), currentInputGain |-> One,
     isAmpexMode |-> TRUE, fs |-> 48000,
     tanhDrive |-> F(11, -2), tanhAsymmetry |-> F(80, -2),
     atanDrive |-> F(5, -1), atanMixMax |-> Zero, atanThreshold |-> F(15, -1),
     atanWidth |-> One, atanAsymmetry |-> One, useAsymmetricAtan |-> FALSE,
     jaBlendMax |-> F(50, -2), jaBlendThreshold |-> F(3, -1),
     jaBlendWidth |-> F(4, -1), jaEnvelope |-> Zero,
     dcBlocker1 |-> Biquad0, dcBlocker2 |-> Biquad0,
     reEmphasis |-> EmphasisNew(1), deEmphasis |-> EmphasisNew(-1),
     dispersiveAllpass |->
        [i \in 0 .. NUM_DISPERSIVE_STAGES - 1 |-> [coefficient |-> Zero, z1 |-> Zero]],
     dispersiveCornerFreq |-> 4000,
     jaCore |-> JACoreNew, jaInputScale |-> Three, jaOutputScale |-> One,
     machineEQ |-> MachineEQNew]

\* The Master parameter set with c = 1 and alpha = 1, so that c * alpha = 1.
AmpexProfileUnitCoupling ==
    [jaParams |-> [M_s |-> One, a |-> F(50, 0), k |-> F(5, -3), c |-> One,
                   alpha |-> One],
     jaInputScale |-> One, jaOutputScale |-> F(150, 0),
     tanhDrive |-> F(95, -3), tanhAsymmetry |-> F(108, -2),
     jaBlendMax |-> One, jaBlendThreshold |-> F(77, -2), jaBlendWidth |-> F(15, -1),
     atanDrive |-> F(5, 0), atanMixMax |-> F(65, -2), atanThreshold |-> F(5, -1),
     atanWidth |-> F(25, -1), atanAsymmetry |-> One, useAsymmetricAtan |-> FALSE,
     delayMicroseconds |-> 8]
\* The two branches of updateCachedValues, as the values they assign.
AmpexProfile ==
    [jaParams |-> [M_s |-> One, a |-> F(50, 0), k |-> F(5, -3), c |-> F(95, -2),
                   alpha |-> F(1, -6)],
     jaInputScale |-> One, jaOutputScale |-> F(150, 0),
     tanhDrive |-> F(95, -3), tanhAsymmetry |-> F(108, -2),
     jaBlendMax |-> One, jaBlendThreshold |-> F(77, -2), jaBlendWidth |-> F(15, -1),
     atanDrive |-> F(5, 0), atanMixMax |-> F(65, -2), atanThreshold |-> F(5, -1),
     atanWidth |-> F(25, -1), atanAsymmetry |-> One, useAsymmetricAtan |-> FALSE,
     delayMicroseconds |-> 8]
\* The Tracks parameter set with a saturation magnetisation of 0.001.
StuderProfileLowSaturation ==
    [jaParams |-> [M_s |-> F(1, -3), a |-> F(35, 0), k |-> F(1, -2), c |-> F(92, -2),
                   alpha |-> F(1, -5)],
     jaInputScale |-> One, jaOutputScale |-> F(105, 0),
     tanhDrive |-> F(14, -2), tanhAsymmetry |-> F(118, -2),
     jaBlendMax |-> One, jaBlendThreshold |-> F(60, -2), jaBlendWidth |-> F(12, -1),
     atanDrive |-> F(55, -1), atanMixMax |-> F(72, -2), atanThreshold |-> F(4, -1),
     atanWidth |-> F(25, -1), atanAsymmetry |-> F(125, -2), useAsymmetricAtan |-> TRUE,
     delayMicroseconds |-> 12]

StuderProfile ==
    [jaParams |-> [M_s |-> One, a |-> F(35, 0), k |-> F(1, -2), c |-> F(92, -2),
                   alpha |-> F(1, -5)],
     jaInputScale |-> One, jaOutputScale |-> F(105, 0),
     tanhDrive |-> F(14, -2), tanhAsymmetry |-> F(118, -2),
     jaBlendMax |-> One, jaBlendThreshold |-> F(60, -2), jaBlendWidth |-> F(12, -1),
     atanDrive |-> F(55, -1), atanMixMax |-> F(72, -2), atanThreshold |-> F(4, -1),
     atanWidth |-> F(25, -1), atanAsymmetry |-> F(125, -2), useAsymmetricAtan |-> TRUE,
     delayMicroseconds |-> 12]

\* 0.74 counted on the Master side of the threshold.
IsAmpexInclusive(bias) == FLe(bias, BiasThreshold)

\* isAmpexMode = (currentBiasStrength < 0.74)
IsAmpex(bias) == FLt(bias, BiasThreshold)

\* updateCachedValues(): mode from the stored bias, the mode's parameter set,
\* and the azimuth delay from the mode and the current fs.
updateCachedValues(p) ==
    LET ampex == IsAmpex(p.currentBiasStrength)
        prof == IF ampex THEN AmpexProfile ELSE StuderProfile
    IN  [p EXCEPT
           !.isAmpexMode = ampex,
           !.jaCore = JASetParameters(@, prof.jaParams),
           !.jaInputScale = prof.jaInputScale,
           !.jaOutputScale = prof.jaOutputScale,
           !.tanhDrive = prof.tanhDrive,
           !.tanhAsymmetry = prof.tanhAsymmetry,
           !.jaBlendMax = prof.jaBlendMax,
           !.jaBlendThreshold = prof.jaBlendThreshold,
           !.jaBlendWidth = prof.jaBlendWidth,
           !.atanDrive = prof.atanDrive,
           !.atanMixMax = prof.atanMixMax,
           !.atanThreshold = prof.atanThreshold,
           !.atanWidth = prof.atanWidth,
           !.atanAsymmetry = prof.atanAsymmetry,
           !.useAsymmetricAtan = prof.useAsymmetricAtan,
           !.cachedDelaySamples = prof.delayMicroseconds * p.fs]

\* reset() without its last statement, jaEnvelope = 0.0.
resetKeepingEnvelope(p) ==
    [p EXCEPT
       !.dcBlocker1 = BiquadReset(@), !.dcBlocker2 = BiquadReset(@),
       !.reEmphasis = EmphasisReset(@), !.deEmphasis = EmphasisReset(@),
       !.jaCore = JAReset(@),
       !.delayBuffer = [i \in 0 .. DELAY_BUFFER_SIZE - 1 |-> Zero],
       !.delayWriteIndex = 0]

\* reset(): filter states, the core's state, the delay line and the envelope.
reset(p) ==
    [p EXCEPT
       !.dcBlocker1 = BiquadReset(@), !.dcBlocker2 = BiquadReset(@),
       !.reEmphasis = EmphasisReset(@), !.deEmphasis = EmphasisReset(@),
       !.jaCore = JAReset(@),
       !.delayBuffer = [i \in 0 .. DELAY_BUFFER_SIZE - 1 |-> Zero],
       !.delayWriteIndex = 0,
       !.jaEnvelope = Zero]

\* HybridTapeProcessor(): updateCachedValues(); reset().
NewProcessor == reset(updateCachedValues(ProcessorMembers))

\* setSampleRate(sampleRate): fs, the three sub-objects' rates and the two
\* DC blocker designs.  cachedDelaySamples is not among its assignments.
setSampleRate(p, sampleRate) ==
    [p EXCEPT
       !.fs = sampleRate,
       !.reEmphasis = EmphasisSetSampleRate(@, sampleRate, 1),
       !.deEmphasis = EmphasisSetSampleRate(@, sampleRate, -1),
       !.jaCore = JASetSampleRate(@, sampleRate),
       !.dcBlocker1 = WithCoeffs(@, dcBlockerDesign(sampleRate)),
       !.dcBlocker2 = WithCoeffs(@, dcBlockerDesign(sampleRate))]

\* A clamp without the upper limit.
ClampBiasLowerOnly(biasStrength) ==
    IF FLt(biasStrength, Zero) THEN Zero ELSE biasStrength
\* std::clamp(biasStrength, 0.0, 1.0)
ClampBias(biasStrength) == FClamp(biasStrength, Zero, One)

\* setParameters followed by reset().
setParametersThenReset(p, biasStrength, inputGain) ==
    reset(updateCachedValues(
        [p EXCEPT !.currentBiasStrength = ClampBias(biasStrength),
                  !.currentInputGain = inputGain]))

\* setParameters(biasStrength, inputGain)
setParameters(p, biasStrength, inputGain) ==
    updateCachedValues(
        [p EXCEPT !.currentBiasStrength = ClampBias(biasStrength),
                  !.currentInputGain = inputGain])


(***************************************************************************)
(* The per-sample path.  Where one stage feeds the next, the stage's       *)
(* result is bound as the element of a singleton set, so that it is a      *)
(* value before the next stage starts.                                     *)
(***************************************************************************)
envAttack == F(2, -3)
envRelease == F(20, -3)
NormFloor == F(1, -3)

\* asymmetricTanh(x) without the subtraction of the offset at rest.
asymmetricTanhNoOffset(p, x) ==
    Tanh(FMul(p.tanhDrive, FAdd(x, FSub(p.tanhAsymmetry, One))))

\* asymmetricTanh(x)
asymmetricTanh(p, x) ==
    LET bias == FSub(p.tanhAsymmetry, One)
        saturated == Tanh(FMul(p.tanhDrive, FAdd(x, bias)))
        dcOffset == Tanh(FMul(p.tanhDrive, bias))
        output == FSub(saturated, dcOffset)
        normFactor == FMul(p.tanhDrive, FSub(One, FMul(dcOffset, dcOffset)))
    IN  IF FGt(normFactor, NormFloor) THEN FDiv(output, normFactor) ELSE output

\* softAtan(x)
softAtan(p, x) ==
    IF FLt(p.atanDrive, NormFloor) THEN x
    ELSE FDiv(Atan(FMul(p.atanDrive, x)), p.atanDrive)

\* asymmetricAtan(x)
asymmetricAtan(p, x) ==
    IF FLt(p.atanDrive, NormFloor) THEN x
    ELSE LET bias == FSub(p.atanAsymmetry, One)
             saturated == Atan(FMul(p.atanDrive, FAdd(x, bias)))
             dcOffset == Atan(FMul(p.atanDrive, bias))
             output == FSub(saturated, dcOffset)
             driveBias == FMul(p.atanDrive, bias)
             normFactor == FDiv(p.atanDrive, FAdd(One, FMul(driveBias, driveBias)))
         IN  IF FGt(normFactor, NormFloor) THEN FDiv(output, normFactor) ELSE output

\* softAtan(x) with the bypass test removed: always the normalised form.
softAtanTraceNoBypass(p, x) ==
    [output |-> FDiv(Atan(FMul(p.atanDrive, x)), p.atanDrive),
     divisors |-> <<p.atanDrive>>]

\* softAtan(x) as the value it returns and the divisors of the divisions it
\* executes, in execution order.
softAtanTrace(p, x) ==
    IF FLt(p.atanDrive, NormFloor) THEN [output |-> x, divisors |-> << >>]
    ELSE [output |-> FDiv(Atan(FMul(p.atanDrive, x)), p.atanDrive),
          divisors |-> <<p.atanDrive>>]

\* asymmetricAtan(x), likewise: the division forming normFactor, then the
\* division by normFactor where its test passes.
asymmetricAtanTrace(p, x) ==
    IF FLt(p.atanDrive, NormFloor) THEN [output |-> x, divisors |-> << >>]
    ELSE LET bias == FSub(p.atanAsymmetry, One)
             saturated == Atan(FMul(p.atanDrive, FAdd(x, bias)))
             dcOffset == Atan(FMul(p.atanDrive, bias))
             output == FSub(saturated, dcOffset)
             driveBias == FMul(p.atanDrive, bias)
             square == FAdd(One, FMul(driveBias, driveBias))
             normFactor == FDiv(p.atanDrive, square)
         IN  IF FGt(normFactor, NormFloor)
             THEN [output |-> FDiv(output, normFactor),
                   divisors |-> <<square, normFactor>>]
             ELSE [output |-> output, divisors |-> <<square>>]

\* The cubic weight without the clamp of the ratio to [0, 1].
SmoothBlendUnclamped(env, threshold, width, max) ==
    LET r == FDiv(FSub(env, threshold), width)
    IN  FMul(FMul(FMul(max, r), r), FSub(Three, FMul(Two, r)))

\* max * r * r * (3 - 2 r) with r = clamp((env - threshold) / width, 0, 1).
SmoothBlend(env, threshold, width, max) ==
    LET r == FClamp(FDiv(FSub(env, threshold), width), Zero, One)
    IN  FMul(FMul(FMul(max, r), r), FSub(Three, FMul(Two, r)))

\* Steps 1-3 of processSample: gained input, the envelope after its update
\* and the two level-dependent weights.
Levels(p, input) ==
    CHOOSE r \in
      {[gained |-> g, jaEnvelope |-> env,
        jaBlend |-> SmoothBlend(env, p.jaBlendThreshold, p.jaBlendWidth, p.jaBlendMax),
        atanAmount |-> SmoothBlend(env, p.atanThreshold, p.atanWidth, p.atanMixMax)] :
         g \in {FMul(input, p.currentInputGain)},
         env \in {LET absGained == FAbs(FMul(input, p.currentInputGain))
                  IN  IF FGt(absGained, p.jaEnvelope)
                      THEN FAdd(p.jaEnvelope,
                                FMul(envAttack, FSub(absGained, p.jaEnvelope)))
                      ELSE FAdd(p.jaEnvelope,
                                FMul(envRelease, FSub(absGained, p.jaEnvelope)))}} : TRUE

\* Step 6: tanhOut, the series atan, and their mix by atanAmount.
TanhPath(p, deEmphasized, atanAmount) ==
    CHOOSE r \in
      {FAdd(FMul(tanhOut, FSub(One, atanAmount)), FMul(atanOut, atanAmount)) :
         tanhOut \in {asymmetricTanh(p, deEmphasized)},
         atanOut \in {IF p.useAsymmetricAtan
                      THEN asymmetricAtan(p, asymmetricTanh(p, deEmphasized))
                      ELSE softAtan(p, asymmetricTanh(p, deEmphasized))}} : TRUE

\* The stages processSample executes, in the order of its statements.
StagesRun ==
    << "inputGain", "envelope", "blendWeight", "deEmphasis", "jaPath",
       "tanhPath", "blend", "reEmphasis", "dcBlocker1", "dcBlocker2" >>

\* Steps 8-9 and the return: re-emphasis, the two DC blocker sections.
Finish(p, lv, de, ja, blended) ==
    CHOOSE r \in
      {[proc |-> [p EXCEPT !.jaEnvelope = lv.jaEnvelope, !.deEmphasis = de[1],
                           !.jaCore = ja[1], !.reEmphasis = t[1][1],
                           !.dcBlocker1 = t[2][1], !.dcBlocker2 = t[3][1]],
        output |-> t[3][2], jaBlend |-> lv.jaBlend, atanAmount |-> lv.atanAmount,
        jaOutput |-> ja[2], iterates |-> ja[3], blended |-> blended,
        stages |-> StagesRun] :
         t \in {<<x[1], x[2], BiquadProcess(p.dcBlocker2, x[2][2])>> :
                  x \in {<<re, BiquadProcess(p.dcBlocker1, re[2])>> :
                           re \in {EmphasisProcessSample(p.reEmphasis, blended)}}}} : TRUE

\* Steps 5-7: the J-A path, the tanh path and their blend by jaBlend.
Saturate(p, lv, de) ==
    CHOOSE r \in
      {Finish(p, lv, de, ja,
              FAdd(FMul(FMul(ja[2], p.jaOutputScale), lv.jaBlend),
                   FMul(tanhPath, FSub(One, lv.jaBlend)))) :
         ja \in {JAProcess(p.jaCore, FMul(de[2], p.jaInputScale))},
         tanhPath \in {TanhPath(p, de[2], lv.atanAmount)}} : TRUE

\* processSample(input): the processor after the call, the returned value and
\* the intermediate values of the call.
processSample(p, input) ==
    CHOOSE r \in
      {Saturate(p, lv, EmphasisProcessSample(p.deEmphasis, lv.gained)) :
         lv \in {Levels(p, input)}} : TRUE


\* a % b of C++ (the sign follows the dividend).
TRem(a, b) == a - b * TDiv(a, b)

\* The read position of processRightChannel in millionths of a sample:
\* delayWriteIndex - cachedDelaySamples, plus DELAY_BUFFER_SIZE once if negative.
ReadPos(p) ==
    IF p.delayWriteIndex * MicroPerSample - p.cachedDelaySamples < 0
    THEN p.delayWriteIndex * MicroPerSample - p.cachedDelaySamples
         + DELAY_BUFFER_SIZE * MicroPerSample
    ELSE p.delayWriteIndex * MicroPerSample - p.cachedDelaySamples

\* static_cast<int>(readPos) truncates toward zero.
ReadIndex0(p) == TDiv(ReadPos(p), MicroPerSample)
ReadIndex1(p) == TRem(ReadIndex0(p) + 1, DELAY_BUFFER_SIZE)
\* frac = readPos - readIndex0, as a number.
Frac(p) == F(ReadPos(p) - ReadIndex0(p) * MicroPerSample, -6)

\* processRightChannel(input): processSample, the write into the delay line,
\* the interpolated read and the advance of the write index.
processRightChannel(p, input) ==
    CHOOSE r \in
      {LET buf == [ps.proc.delayBuffer EXCEPT ![p.delayWriteIndex] = ps.output]
       IN  [proc |-> [ps.proc EXCEPT
                        !.delayBuffer = buf,
                        !.delayWriteIndex =
                            TRem(p.delayWriteIndex + 1, DELAY_BUFFER_SIZE)],
            output |-> FAdd(FMul(buf[ReadIndex0(p)], FSub(One, Frac(p))),
                            FMul(buf[ReadIndex1(p)], Frac(p))),
            processed |-> ps.output, written |-> p.delayWriteIndex,
            readIndex0 |-> ReadIndex0(p), readIndex1 |-> ReadIndex1(p),
            jaBlend |-> ps.jaBlend, atanAmount |-> ps.atanAmount,
            jaOutput |-> ps.jaOutput, iterates |-> ps.iterates,
            blended |-> ps.blended, stages |-> ps.stages] :
         ps \in {processSample(p, input)}} : TRUE


(***************************************************************************)
(* The plugin shell: the stages processBlock runs after downsampling, for  *)
(* the plugin instances of one process.  The oversampler is outside the    *)
(* model: a block is the pair of what it hands to the tape processors and  *)
(* what it returns after them.                                             *)
(***************************************************************************)
\* The plugin instances the host has created in the process.
Instances == {1, 2}
\* Per instance: the bus layout the host chose (getTotalNumInputChannels()),
\* the sample rate it passes to prepareToPlay, the normalised values the
\* ToleranceEQ constructor drew and the sum of the LFO sines for the phases
\* the HeadBumpModulator constructor drew (one block moves a phase by less
\* than 0.0002 rad, below the resolution of the arithmetic).
ChannelsOf == <<2, 1>>
HostRateOf == <<44100, 48000>>
ToleranceOf ==
    << [lowFreqL |-> 1, lowGainL |-> 1, highFreqL |-> 1, highGainL |-> 1,
        lowFreqR |-> -1, lowGainR |-> -1, highFreqR |-> -1, highGainR |-> -1],
       [lowFreqL |-> -1, lowGainL |-> -1, highFreqL |-> -1, highGainL |-> -1,
        lowFreqR |-> 1, lowGainR |-> 1, highFreqR |-> 1, highGainR |-> 1] >>
LFOOf == <<F(5, -1), F(-1, 0)>>

\* Biquad::setHighPass (fc, 0.707f, sampleRate): the coefficients
\* <<b0, b1, b2, a1, a2>>, tabulated for the designs the plugin requests.
setHighPass(fc, sampleRate) ==
    CASE fc = 100 /\ sampleRate = 44100 ->
         <<<<989975, -6>>, <<-197995, -5>>, <<989975, -6>>, <<-197985, -5>>, <<980050, -6>>>>
      [] fc = 100 /\ sampleRate = 48000 ->
         <<<<990785, -6>>, <<-198157, -5>>, <<990785, -6>>, <<-198149, -5>>, <<981656, -6>>>>

\* Biquad::setLowPass (fc, 0.707f, sampleRate)
setLowPass(fc, sampleRate) ==
    CASE fc = 8000 /\ sampleRate = 44100 ->
         <<<<177235, -6>>, <<354469, -6>>, <<177235, -6>>, <<-508687, -6>>, <<217626, -6>>>>
      [] fc = 8000 /\ sampleRate = 48000 ->
         <<<<155042, -6>>, <<310084, -6>>, <<155042, -6>>, <<-620169, -6>>, <<240337, -6>>>>

\* Biquad::setBandpass (fc, 0.7f, sampleRate)
setBandpass(fc, sampleRate) ==
    CASE fc = 40 /\ sampleRate = 44100 ->
         <<<<283795, -8>>, <<0, 0>>, <<-283795, -8>>, <<-199186, -5>>, <<991892, -6>>>>
      [] fc = 75 /\ sampleRate = 44100 ->
         <<<<530227, -8>>, <<0, 0>>, <<-530227, -8>>, <<-198474, -5>>, <<984851, -6>>>>
      [] fc = 40 /\ sampleRate = 48000 ->
         <<<<260823, -8>>, <<0, 0>>, <<-260823, -8>>, <<-199252, -5>>, <<992548, -6>>>>
      [] fc = 75 /\ sampleRate = 48000 ->
         <<<<487448, -8>>, <<0, 0>>, <<-487448, -8>>, <<-198598, -5>>, <<986073, -6>>>>

\* Biquad::setLowShelf (fc, gainDB, 0.707f, sampleRate), the gain in hundredths
\* of a dB.
setLowShelf(fc, gainDB100, sampleRate) ==
    CASE fc = 64 /\ gainDB100 = 10 /\ sampleRate = 44100 ->
         <<<<100004, -5>>, <<-198714, -5>>, <<987185, -6>>, <<-198714, -5>>, <<987222, -6>>>>
      [] fc = 56 /\ gainDB100 = -10 /\ sampleRate = 44100 ->
         <<<<999968, -6>>, <<-198868, -5>>, <<988778, -6>>, <<-198868, -5>>, <<988746, -6>>>>
      [] fc = 81 /\ gainDB100 = 15 /\ sampleRate = 44100 ->
         <<<<100007, -5>>, <<-198375, -5>>, <<983809, -6>>, <<-198375, -5>>, <<983878, -6>>>>
      [] fc = 69 /\ gainDB100 = -15 /\ sampleRate = 44100 ->
         <<<<999940, -6>>, <<-198604, -5>>, <<986191, -6>>, <<-198604, -5>>, <<986132, -6>>>>
      [] fc = 64 /\ gainDB100 = 10 /\ sampleRate = 48000 ->
         <<<<100003, -5>>, <<-198818, -5>>, <<988220, -6>>, <<-198818, -5>>, <<988254, -6>>>>
      [] fc = 56 /\ gainDB100 = -10 /\ sampleRate = 48000 ->
         <<<<999970, -6>>, <<-198960, -5>>, <<989685, -6>>, <<-198960, -5>>, <<989656, -6>>>>
      [] fc = 81 /\ gainDB100 = 15 /\ sampleRate = 48000 ->
         <<<<100006, -5>>, <<-198507, -5>>, <<985115, -6>>, <<-198507, -5>>, <<985179, -6>>>>
      [] fc = 69 /\ gainDB100 = -15 /\ sampleRate = 48000 ->
         <<<<999945, -6>>, <<-198717, -5>>, <<987306, -6>>, <<-198717, -5>>, <<987251, -6>>>>

\* Biquad::setHighShelf (fc, gainDB, 0.707f, sampleRate)
setHighShelf(fc, gainDB100, sampleRate) ==
    CASE fc = 16400 /\ gainDB100 = 12 /\ sampleRate = 44100 ->
         <<<<100374, -5>>, <<918478, -6>>, <<324842, -6>>, <<921292, -6>>, <<325772, -6>>>>
      [] fc = 15600 /\ gainDB100 = -12 /\ sampleRate = 44100 ->
         <<<<995784, -6>>, <<776727, -6>>, <<280012, -6>>, <<773256, -6>>, <<279267, -6>>>>
      [] fc = 15500 /\ gainDB100 = 18 /\ sampleRate = 44100 ->
         <<<<100645, -5>>, <<758860, -6>>, <<275632, -6>>, <<764226, -6>>, <<276716, -6>>>>
      [] fc = 14500 /\ gainDB100 = -18 /\ sampleRate = 44100 ->
         <<<<992700, -6>>, <<586920, -6>>, <<232285, -6>>, <<580239, -6>>, <<231665, -6>>>>
      [] fc = 16400 /\ gainDB100 = 12 /\ sampleRate = 48000 ->
         <<<<100456, -5>>, <<683307, -6>>, <<255681, -6>>, <<687265, -6>>, <<256280, -6>>>>
      [] fc = 15600 /\ gainDB100 = -12 /\ sampleRate = 48000 ->
         <<<<995028, -6>>, <<557910, -6>>, <<226509, -6>>, <<553294, -6>>, <<226153, -6>>>>
      [] fc = 15500 /\ gainDB100 = 18 /\ sampleRate = 48000 ->
         <<<<100759, -5>>, <<539742, -6>>, <<224386, -6>>, <<546840, -6>>, <<224873, -6>>>>
      [] fc = 14500 /\ gainDB100 = -18 /\ sampleRate = 48000 ->
         <<<<991668, -6>>, <<387592, -6>>, <<196984, -6>>, <<379205, -6>>, <<197039, -6>>>>

\* CrosstalkFilter: highpass, lowpass, float gain = 0.01f
CrosstalkFilterNew == [highpass |-> Biquad0, lowpass |-> Biquad0, gain |-> F(1, -2)]

\* CrosstalkFilter::reset()
CrosstalkReset(c) ==
    [c EXCEPT !.highpass = BiquadReset(c.highpass),
              !.lowpass = BiquadReset(c.lowpass)]

\* CrosstalkFilter::prepare(sampleRate)
CrosstalkPrepare(c, sampleRate) ==
    CrosstalkReset([c EXCEPT
        !.highpass = WithCoeffs(c.highpass, setHighPass(100, sampleRate)),
        !.lowpass = WithCoeffs(c.lowpass, setLowPass(8000, sampleRate))])

\* CrosstalkFilter::process(monoInput): <<filter after the call, output>>.
CrosstalkProcess(c, monoInput) ==
    CHOOSE r \in
      {<<[c EXCEPT !.highpass = h[1], !.lowpass = l[1]], FMul(l[2], c.gain)>> :
         h \in {BiquadProcess(c.highpass, monoInput)},
         l \in {BiquadProcess(c.lowpass, BiquadProcess(c.highpass, monoInput)[2])}} : TRUE

\* HeadBumpModulator as constructed; the LFO phases are in LFOOf.
HeadBumpModulatorNew ==
    [bandpassL |-> Biquad0, bandpassR |-> Biquad0, sampleRate |-> 48000,
     centerFreq |-> 60, modulationDepth |-> F(12, -3)]

\* HeadBumpModulator::reset()
HeadBumpReset(h) ==
    [h EXCEPT !.bandpassL = BiquadReset(h.bandpassL),
              !.bandpassR = BiquadReset(h.bandpassR)]

\* HeadBumpModulator::prepare(sr, isAmpex)
HeadBumpPrepare(h, sr, isAmpex) ==
    LET centerFreq == IF isAmpex THEN 40 ELSE 75
    IN  HeadBumpReset([h EXCEPT
            !.sampleRate = sr,
            !.centerFreq = centerFreq,
            !.modulationDepth = IF isAmpex THEN F(9, -3) ELSE F(14, -3),
            !.bandpassL = WithCoeffs(h.bandpassL, setBandpass(centerFreq, sr)),
            !.bandpassR = WithCoeffs(h.bandpassR, setBandpass(centerFreq, sr))])

\* HeadBumpModulator::updateLFO(blockSize): 1.0f + lfo * modulationDepth
updateLFO(h, lfo) == FAdd(One, FMul(lfo, h.modulationDepth))

\* HeadBumpModulator::processSample(left, right, modGain):
\* <<modulator after the call, left, right>>.
HeadBumpProcessSample(h, left, right, modGain) ==
    CHOOSE r \in
      {<<[h EXCEPT !.bandpassL = bumpL[1], !.bandpassR = bumpR[1]],
         FAdd(left, FMul(bumpL[2], FSub(modGain, One))),
         FAdd(right, FMul(bumpR[2], FSub(modGain, One)))>> :
         bumpL \in {BiquadProcess(h.bandpassL, left)},
         bumpR \in {BiquadProcess(h.bandpassR, right)}} : TRUE

\* ToleranceEQ as constructed; the values its constructor draws are in
\* ToleranceOf.
ToleranceEQNew ==
    [lowShelfL |-> Biquad0, highShelfL |-> Biquad0,
     lowShelfR |-> Biquad0, highShelfR |-> Biquad0,
     sampleRate |-> 48000, isStereo |-> TRUE, isAmpex |-> TRUE]

\* ToleranceEQ::reset()
ToleranceReset(t) ==
    [t EXCEPT !.lowShelfL = BiquadReset(t.lowShelfL),
              !.highShelfL = BiquadReset(t.highShelfL),
              !.lowShelfR = BiquadReset(t.lowShelfR),
              !.highShelfR = BiquadReset(t.highShelfR)]

\* ToleranceEQ::prepare(sr, stereoMode, ampexMode) of an instance that drew
\* the normalised values d: frequencies in Hz, gains in hundredths of a dB.
TolerancePrepare(t, d, sr, stereoMode, ampexMode) ==
    LET lowFreqCenter == IF ampexMode THEN 60 ELSE 75
        lowFreqRange == IF ampexMode THEN 4 ELSE 6
        lowGainRange == IF ampexMode THEN 10 ELSE 15
        highFreqCenter == IF ampexMode THEN 16000 ELSE 15000
        highFreqRange == IF ampexMode THEN 400 ELSE 500
        highGainRange == IF ampexMode THEN 12 ELSE 18
        lowL == setLowShelf(lowFreqCenter + d.lowFreqL * lowFreqRange,
                            d.lowGainL * lowGainRange, sr)
        highL == setHighShelf(highFreqCenter + d.highFreqL * highFreqRange,
                              d.highGainL * highGainRange, sr)
        lowR == setLowShelf(lowFreqCenter + d.lowFreqR * lowFreqRange,
                            d.lowGainR * lowGainRange, sr)
        highR == setHighShelf(highFreqCenter + d.highFreqR * highFreqRange,
                              d.highGainR * highGainRange, sr)
    IN  ToleranceReset([t EXCEPT
            !.sampleRate = sr, !.isStereo = stereoMode, !.isAmpex = ampexMode,
            !.lowShelfL = WithCoeffs(t.lowShelfL, lowL),
            !.highShelfL = WithCoeffs(t.highShelfL, highL),
            !.lowShelfR = WithCoeffs(t.lowShelfR, IF stereoMode THEN lowR ELSE lowL),
            !.highShelfR = WithCoeffs(t.highShelfR,
                                      IF stereoMode THEN highR ELSE highL)])

\* ToleranceEQ::processSample(left, right): <<EQ after the call, left, right>>.
ToleranceProcessSample(t, left, right) ==
    CHOOSE r \in
      {<<[t EXCEPT !.lowShelfL = ll[1], !.highShelfL = hl[1],
                   !.lowShelfR = lr[1], !.highShelfR = hr[1]], hl[2], hr[2]>> :
         ll \in {BiquadProcess(t.lowShelfL, left)},
         hl \in {BiquadProcess(t.highShelfL, BiquadProcess(t.lowShelfL, left)[2])},
         lr \in {BiquadProcess(t.lowShelfR, right)},
         hr \in {BiquadProcess(t.highShelfR, BiquadProcess(t.lowShelfR, right)[2])}} :
        TRUE

\* static constexpr int MAX_DELAY_SAMPLES = 12480
MAX_DELAY_SAMPLES == 12480

\* PrintThrough as constructed.  bufferL and bufferR hold the samples written
\* since the last reset, from index 0 on; every other cell of the arrays
\* holds 0.0.
PrintThroughNew ==
    [bufferL |-> << >>, bufferR |-> << >>, writeIndex |-> 0, delaySamples |-> 0,
     sampleRate |-> 48000]

\* PrintThrough::reset()
PrintThroughReset(p) ==
    [p EXCEPT !.bufferL = << >>, !.bufferR = << >>, !.writeIndex = 0]

\* PrintThrough::prepare(sr): delaySamples = int(0.065 * sr), capped.
PrintThroughPrepare(p, sr) ==
    PrintThroughReset([p EXCEPT
        !.sampleRate = sr,
        !.delaySamples = IF (65 * sr) \div 1000 >= MAX_DELAY_SAMPLES
                         THEN MAX_DELAY_SAMPLES - 1
                         ELSE (65 * sr) \div 1000])

\* buffer[index]
DelayedSample(buffer, index) ==
    IF index < Len(buffer) THEN buffer[index + 1] ELSE Zero

\* delayed * printLevel, printLevel = (abs > noiseFloor) ? printCoeff * abs : 0.0
PreEcho(delayed) ==
    IF FGt(FAbs(delayed), F(1, -3))
    THEN FMul(delayed, FMul(F(126, -5), FAbs(delayed)))
    ELSE FMul(delayed, Zero)

\* PrintThrough::processSample(left, right):
\* <<line after the call, left, right>>.
PrintThroughProcessSample(p, left, right) ==
    LET readIndex == IF p.writeIndex - p.delaySamples < 0
                     THEN p.writeIndex - p.delaySamples + MAX_DELAY_SAMPLES
                     ELSE p.writeIndex - p.delaySamples
    IN  <<[p EXCEPT !.bufferL = Append(p.bufferL, left),
                    !.bufferR = Append(p.bufferR, right),
                    !.writeIndex = (p.writeIndex + 1) % MAX_DELAY_SAMPLES],
          FAdd(left, PreEcho(DelayedSample(p.bufferL, readIndex))),
          FAdd(right, PreEcho(DelayedSample(p.bufferR, readIndex)))>>

\* A plugin instance as its constructor leaves it: Machine Mode at its
\* default, no oversampler yet.
InstanceNew ==
    [machineMode |-> 0, outputTrim |-> One, prepared |-> FALSE, sampleRate |-> 0,
     tapeProcessorLeft |-> NewProcessor, tapeProcessorRight |-> NewProcessor,
     crosstalkFilter |-> CrosstalkFilterNew,
     headBumpModulator |-> HeadBumpModulatorNew,
     toleranceEQ |-> ToleranceEQNew, printThrough |-> PrintThroughNew]

\* prepareToPlay(sampleRate, samplesPerBlock) of an instance with the given
\* bus layout and tolerance values.
prepareToPlay(inst, channels, d, sampleRate) ==
    [inst EXCEPT
       !.prepared = TRUE,
       !.sampleRate = sampleRate,
       !.tapeProcessorLeft =
           setParameters(reset(setSampleRate(inst.tapeProcessorLeft, sampleRate * 2)),
                         F(65, -2), One),
       !.tapeProcessorRight =
           setParameters(reset(setSampleRate(inst.tapeProcessorRight, sampleRate * 2)),
                         F(65, -2), One),
       !.crosstalkFilter = CrosstalkPrepare(inst.crosstalkFilter, sampleRate),
       !.headBumpModulator = HeadBumpPrepare(inst.headBumpModulator, sampleRate, TRUE),
       !.toleranceEQ = TolerancePrepare(inst.toleranceEQ, d, sampleRate,
                                        channels >= 2, TRUE),
       !.printThrough = PrintThroughPrepare(inst.printThrough, sampleRate)]



(***************************************************************************)
(* State.                                                                  *)
(*   proc   a HybridTapeProcessor driven through its public interface      *)
(*   other  a second HybridTapeProcessor, for the two-instance scenarios   *)
(*   tapeProcessorLeft, tapeProcessorRight, machineModeParam               *)
(*          the plugin's two channel processors and its Machine Mode       *)
(*          parameter                                                      *)
(*   phase  the stage a scenario has reached                               *)
(*   calls  the number of calls made so far                                *)
(*   last   the last call: its name, its arguments, what it returned       *)
(***************************************************************************)
VARIABLES proc, other, tapeProcessorLeft, tapeProcessorRight,
          machineModeParam, phase, calls, last,
          inputTrimParam, outputTrimParam, lastInputTrimValue,
          isUpdatingOutputTrim, callback,
          hfCut, hfRestore, machineEQ, ramp,
          instances, lastMachineMode

vars == <<proc, other, tapeProcessorLeft, tapeProcessorRight,
          machineModeParam, phase, calls, last,
          inputTrimParam, outputTrimParam, lastInputTrimValue,
          isUpdatingOutputTrim, callback,
          hfCut, hfRestore, machineEQ, ramp,
          instances, lastMachineMode>>
\* The plugin instances of the process and the static local lastMachineMode
\* of processBlock, which they share.
shell == <<instances, lastMachineMode>>
\* The DSP objects that are driven on their own.
standalone == <<hfCut, hfRestore, machineEQ, ramp>>
\* The auto-gain link of the plugin: the two trim parameters, in steps of
\* their ranges (hundredths), the members of the link and the position of
\* the parameterChanged callback.
autoGain == <<inputTrimParam, outputTrimParam, lastInputTrimValue,
              isUpdatingOutputTrim, callback>>
plugin == <<tapeProcessorLeft, tapeProcessorRight, machineModeParam, autoGain>>

\* Sample rates: the six standard rates and the rates the plugin passes for
\* the two highest of them (2x oversampling).
SampleRates == {44100, 48000, 88200, 96000, 176400, 192000, 352800, 384000}
\* biasStrength arguments: below, inside and above [0, 1], the two values the
\* plugin passes (0.65, 0.82) and the two sides of the mode threshold.
BiasValues == {F(-5, -1), F(65, -2), F(73, -2), F(74, -2), F(82, -2), F(15, -1)}
\* inputGain arguments: unity and a gain that drives the envelope past the
\* blend thresholds within a few samples.
GainValues == {One, F(200, 0)}
\* Input samples.
InputValues == {Zero, F(5, -1), F(-1000, 0)}
\* Calls per behaviour.
MaxCalls == 3

\* No parameterChanged call is in progress and none has been made.
NoCallback ==
    [pc |-> "idle", parameterID |-> "none", newValue |-> 0, recorded |-> 0,
     previousOutputTrim |-> 0, writes |-> 0, nested |-> 0]

NoCall ==
    [op |-> "construct", sampleRate |-> 0, biasStrength |-> Zero,
     inputGain |-> Zero, input |-> Zero, recomputed |-> TRUE,
     res |-> [output |-> Zero], resOther |-> [output |-> Zero],
     configured |-> {}]

\* Every processor and every member of the auto-gain link as its
\* constructor leaves it; no call made yet.
Members ==
    /\ proc = NewProcessor
    /\ other = proc
    /\ tapeProcessorLeft = proc
    /\ tapeProcessorRight = proc
    /\ machineModeParam = 0
    /\ inputTrimParam = 50
    /\ outputTrimParam = 100
    /\ lastInputTrimValue = 50
    /\ isUpdatingOutputTrim = FALSE
    /\ callback = NoCallback
    /\ hfCut = EmphasisReset(HFCutUpdateCoefficients(ShieldingMembers))
    /\ hfRestore = EmphasisReset(HFRestoreUpdateCoefficients(ShieldingMembers))
    /\ machineEQ = MachineEQNew
    /\ ramp = [ascending |-> JACoreNew, descending |-> JACoreNew,
               up |-> << >>, down |-> << >>]
    /\ lastMachineMode = -1
    /\ calls = 0
    /\ last = NoCall

\* The objects that are driven without a host: no plugin instance exists.
Constructed == Members /\ instances = << >>

Init == Constructed /\ phase = "api"

SetSampleRate(sampleRate) ==
    /\ calls < MaxCalls
    /\ proc' = setSampleRate(proc, sampleRate)
    /\ last' = [NoCall EXCEPT !.op = "setSampleRate", !.sampleRate = sampleRate,
                              !.recomputed = FALSE]
    /\ calls' = calls + 1
    /\ UNCHANGED <<other, plugin, phase, standalone, shell>>

\* setParameters runs updateCachedValues on every call.
SetParameters(biasStrength, inputGain) ==
    /\ calls < MaxCalls
    /\ proc' = setParameters(proc, biasStrength, inputGain)
    /\ last' = [NoCall EXCEPT !.op = "setParameters",
                              !.biasStrength = biasStrength,
                              !.inputGain = inputGain, !.recomputed = TRUE]
    /\ calls' = calls + 1
    /\ UNCHANGED <<other, plugin, phase, standalone, shell>>

Reset ==
    /\ calls < MaxCalls
    /\ proc' = reset(proc)
    /\ last' = [NoCall EXCEPT !.op = "reset", !.recomputed = FALSE]
    /\ calls' = calls + 1
    /\ UNCHANGED <<other, plugin, phase, standalone, shell>>

ProcessSample(input) ==
    /\ calls < MaxCalls
    /\ \E r \in {processSample(proc, input)} :
          /\ proc' = r.proc
          /\ last' = [NoCall EXCEPT !.op = "processSample", !.input = input,
                                    !.recomputed = FALSE, !.res = r]
    /\ calls' = calls + 1
    /\ UNCHANGED <<other, plugin, phase, standalone, shell>>

ProcessRightChannel(input) ==
    /\ calls < MaxCalls
    /\ \E r \in {processRightChannel(proc, input)} :
          /\ proc' = r.proc
          /\ last' = [NoCall EXCEPT !.op = "processRightChannel", !.input = input,
                                    !.recomputed = FALSE, !.res = r]
    /\ calls' = calls + 1
    /\ UNCHANGED <<other, plugin, phase, standalone, shell>>

(***************************************************************************)
(* The plugin shell: the handlers' effect on the two channel processors.   *)
(* The oversampler is a library object; the block it hands to the loop of  *)
(* processBlock is an input of the model.                                  *)
(***************************************************************************)
\* Host sample rates; the processors run at twice the host rate.
HostRates == {44100, 48000, 88200, 96000, 176400, 192000}
\* Oversampled stereo blocks, as sequences of <<left, right>> samples.
Blocks == { << >>, << <<F(5, -1), F(5, -1)>>, <<F(-1000, 0), Zero>> >> }

\* const double bias = (machineMode == 0) ? 0.65 : 0.82;
BiasOfMode(machineMode) == IF machineMode = 0 THEN F(65, -2) ELSE F(82, -2)

\* The host moves the Machine Mode choice parameter.
SetMachineMode(machineMode) ==
    /\ calls < MaxCalls
    /\ machineModeParam' = machineMode
    /\ last' = [NoCall EXCEPT !.op = "setMachineMode", !.recomputed = FALSE]
    /\ calls' = calls + 1
    /\ UNCHANGED <<proc, other, tapeProcessorLeft, tapeProcessorRight, phase, autoGain, standalone, shell>>

\* prepareToPlay(sampleRate, samplesPerBlock)
PrepareToPlay(sampleRate) ==
    /\ calls < MaxCalls
    /\ tapeProcessorLeft' =
         setParameters(reset(setSampleRate(tapeProcessorLeft, sampleRate * 2)),
                       F(65, -2), One)
    /\ tapeProcessorRight' =
         setParameters(reset(setSampleRate(tapeProcessorRight, sampleRate * 2)),
                       F(65, -2), One)
    /\ last' = [NoCall EXCEPT !.op = "prepareToPlay", !.sampleRate = sampleRate]
    /\ calls' = calls + 1
    /\ UNCHANGED <<proc, other, machineModeParam, phase, autoGain, standalone, shell>>

\* The per-sample loop with the azimuth delay line held in one place for all
\* instances: the right processor works on the buffer the left one carries.
RECURSIVE BlockLoopSharedDelay(_, _, _, _)
BlockLoopSharedDelay(l, r, block, i) ==
    IF i > Len(block) THEN <<l, r>>
    ELSE CHOOSE x \in {BlockLoopSharedDelay(
                           [lr[1].proc EXCEPT !.delayBuffer = lr[2].proc.delayBuffer],
                           lr[2].proc, block, i + 1) :
                       lr \in {<<processSample(l, block[i][1]),
                                 processRightChannel(
                                    [r EXCEPT !.delayBuffer = l.delayBuffer],
                                    block[i][2])>>}} : TRUE

\* The per-sample loop of processBlock from sample i on: the left processor
\* runs processSample, the right one processRightChannel.
\* Returns <<left processor, right processor>>.
RECURSIVE BlockLoop(_, _, _, _)
BlockLoop(l, r, block, i) ==
    IF i > Len(block) THEN <<l, r>>
    ELSE CHOOSE x \in {BlockLoop(lr[1].proc, lr[2].proc, block, i + 1) :
                       lr \in {<<processSample(l, block[i][1]),
                                 processRightChannel(r, block[i][2])>>}} : TRUE

\* processBlock(buffer, midi): setParameters on both processors from the
\* Machine Mode parameter, then the per-sample loop.
ProcessBlock(block) ==
    /\ calls < MaxCalls
    /\ \E lr \in {BlockLoop(
                     setParameters(tapeProcessorLeft, BiasOfMode(machineModeParam), One),
                     setParameters(tapeProcessorRight, BiasOfMode(machineModeParam), One),
                     block, 1)} :
          /\ tapeProcessorLeft' = lr[1]
          /\ tapeProcessorRight' = lr[2]
    /\ last' = [NoCall EXCEPT !.op = "processBlock",
                              !.biasStrength = BiasOfMode(machineModeParam),
                              !.inputGain = One]
    /\ calls' = calls + 1
    /\ UNCHANGED <<proc, other, machineModeParam, phase, autoGain, standalone, shell>>

Next ==
    \/ \E sampleRate \in SampleRates : SetSampleRate(sampleRate)
    \/ \E biasStrength \in BiasValues, inputGain \in GainValues :
          SetParameters(biasStrength, inputGain)
    \/ Reset
    \/ \E input \in InputValues : ProcessSample(input)
    \/ \E input \in InputValues : ProcessRightChannel(input)
    \/ \E machineMode \in {0, 1} : SetMachineMode(machineMode)
    \/ \E sampleRate \in HostRates : PrepareToPlay(sampleRate)
    \/ \E block \in Blocks : ProcessBlock(block)

Spec == Init /\ [][Next]_vars


(***************************************************************************)
(* Reset scenario: two processors.  `other' is configured and never used;  *)
(* `proc' is configured, used and reset.  Then both receive the same       *)
(* calls.  last.configured records which configuration call each of the    *)
(* two has received; setSampleRate is the first call on each.              *)
(***************************************************************************)
ResetRates == {48000, 96000}
ResetBiasValues == {F(65, -2), F(82, -2)}
ResetInputs == {F(5, -1), F(-1000, 0)}
ConfigurationCalls ==
    {"fresh", "used"} \X {"setSampleRate", "setParameters"}
MaxConfig == 5
MaxUse == 2
MaxCompare == 2

InitReset == Constructed /\ phase = "configure"

\* Both processors have received setSampleRate and setParameters, with the
\* same sample rate and the same setParameters arguments.
SameConfiguration ==
    /\ last.configured = ConfigurationCalls
    /\ proc.fs = other.fs
    /\ proc.currentBiasStrength = other.currentBiasStrength
    /\ proc.currentInputGain = other.currentInputGain

FreshSetSampleRate(sampleRate) ==
    /\ phase = "configure" /\ calls < MaxConfig
    /\ other' = setSampleRate(other, sampleRate)
    /\ last' = [last EXCEPT !.configured = @ \cup {<<"fresh", "setSampleRate">>}]
    /\ calls' = calls + 1
    /\ UNCHANGED <<proc, plugin, phase, standalone, shell>>

FreshSetParameters(biasStrength, inputGain) ==
    /\ phase = "configure" /\ calls < MaxConfig
    /\ <<"fresh", "setSampleRate">> \in last.configured
    /\ other' = setParameters(other, biasStrength, inputGain)
    /\ last' = [last EXCEPT !.configured = @ \cup {<<"fresh", "setParameters">>}]
    /\ calls' = calls + 1
    /\ UNCHANGED <<proc, plugin, phase, standalone, shell>>

UsedSetSampleRate(sampleRate) ==
    /\ phase = "configure" /\ calls < MaxConfig
    /\ proc' = setSampleRate(proc, sampleRate)
    /\ last' = [last EXCEPT !.configured = @ \cup {<<"used", "setSampleRate">>}]
    /\ calls' = calls + 1
    /\ UNCHANGED <<other, plugin, phase, standalone, shell>>

UsedSetParameters(biasStrength, inputGain) ==
    /\ phase = "configure" /\ calls < MaxConfig
    /\ <<"used", "setSampleRate">> \in last.configured
    /\ proc' = setParameters(proc, biasStrength, inputGain)
    /\ last' = [last EXCEPT !.configured = @ \cup {<<"used", "setParameters">>}]
    /\ calls' = calls + 1
    /\ UNCHANGED <<other, plugin, phase, standalone, shell>>

\* The used processor handles one sample with processSample.
UseProcessSample(input) ==
    /\ \/ phase = "configure" /\ SameConfiguration
       \/ phase = "use" /\ calls < MaxUse
    /\ proc' = processSample(proc, input).proc
    /\ phase' = "use"
    /\ calls' = IF phase = "use" THEN calls + 1 ELSE 1
    /\ UNCHANGED <<other, plugin, last, standalone, shell>>

\* The used processor handles one sample with processRightChannel.
UseProcessRightChannel(input) ==
    /\ \/ phase = "configure" /\ SameConfiguration
       \/ phase = "use" /\ calls < MaxUse
    /\ proc' = processRightChannel(proc, input).proc
    /\ phase' = "use"
    /\ calls' = IF phase = "use" THEN calls + 1 ELSE 1
    /\ UNCHANGED <<other, plugin, last, standalone, shell>>

ResetUsed ==
    /\ phase = "use"
    /\ proc' = reset(proc)
    /\ phase' = "compare"
    /\ calls' = 0
    /\ last' = [NoCall EXCEPT !.op = "reset", !.recomputed = FALSE,
                              !.configured = last.configured]
    /\ UNCHANGED <<other, plugin, standalone, shell>>

\* Both processors handle the same sample with processSample.
BothProcessSample(input) ==
    /\ phase = "compare" /\ calls < MaxCompare
    /\ \E f \in {[q \in {proc, other} |-> processSample(q, input)]} :
        \E r \in {f[proc]}, ro \in {f[other]} :
          /\ proc' = r.proc
          /\ other' = ro.proc
          /\ last' = [NoCall EXCEPT !.op = "processSample", !.input = input,
                                    !.recomputed = FALSE, !.res = r,
                                    !.resOther = ro,
                                    !.configured = last.configured]
    /\ calls' = calls + 1
    /\ UNCHANGED <<plugin, phase, standalone, shell>>

\* Both processors handle the same sample with processRightChannel.
BothProcessRightChannel(input) ==
    /\ phase = "compare" /\ calls < MaxCompare
    /\ \E f \in {[q \in {proc, other} |-> processRightChannel(q, input)]} :
        \E r \in {f[proc]}, ro \in {f[other]} :
          /\ proc' = r.proc
          /\ other' = ro.proc
          /\ last' = [NoCall EXCEPT !.op = "processRightChannel", !.input = input,
                                    !.recomputed = FALSE, !.res = r,
                                    !.resOther = ro,
                                    !.configured = last.configured]
    /\ calls' = calls + 1
    /\ UNCHANGED <<plugin, phase, standalone, shell>>

NextReset ==
    \/ \E sampleRate \in ResetRates : FreshSetSampleRate(sampleRate)
    \/ \E biasStrength \in ResetBiasValues : FreshSetParameters(biasStrength, One)
    \/ \E sampleRate \in ResetRates : UsedSetSampleRate(sampleRate)
    \/ \E biasStrength \in ResetBiasValues : UsedSetParameters(biasStrength, One)
    \/ \E input \in ResetInputs : UseProcessSample(input)
    \/ \E input \in ResetInputs : UseProcessRightChannel(input)
    \/ ResetUsed
    \/ \E input \in ResetInputs : BothProcessSample(input)
    \/ \E input \in ResetInputs : BothProcessRightChannel(input)

SpecReset == InitReset /\ [][NextReset]_vars

(***************************************************************************)
(* Stereo scenario: `other' is the left channel's processor, `proc' the    *)
(* right channel's.  Both receive the same configuration calls; each       *)
(* sample goes to processSample on the left and processRightChannel on     *)
(* the right, as in the per-sample loop of processBlock.                   *)
(***************************************************************************)
StereoRates == {48000, 96000, 384000}
StereoBiasValues == {F(65, -2), F(82, -2)}
StereoInputs == {Zero, F(5, -1), F(-1000, 0)}
MaxStereoCalls == 3

InitStereo == Constructed /\ phase = "stereo"

StereoSetSampleRate(sampleRate) ==
    /\ phase = "stereo" /\ calls < MaxStereoCalls
    /\ proc' = setSampleRate(proc, sampleRate)
    /\ other' = setSampleRate(other, sampleRate)
    /\ last' = [NoCall EXCEPT !.op = "setSampleRate", !.sampleRate = sampleRate,
                              !.recomputed = FALSE]
    /\ calls' = calls + 1
    /\ UNCHANGED <<plugin, phase, standalone, shell>>

StereoSetParameters(biasStrength, inputGain) ==
    /\ phase = "stereo" /\ calls < MaxStereoCalls
    /\ proc' = setParameters(proc, biasStrength, inputGain)
    /\ other' = setParameters(other, biasStrength, inputGain)
    /\ last' = [NoCall EXCEPT !.op = "setParameters",
                              !.biasStrength = biasStrength,
                              !.inputGain = inputGain, !.recomputed = TRUE]
    /\ calls' = calls + 1
    /\ UNCHANGED <<plugin, phase, standalone, shell>>

StereoReset ==
    /\ phase = "stereo" /\ calls < MaxStereoCalls
    /\ proc' = reset(proc)
    /\ other' = reset(other)
    /\ last' = [NoCall EXCEPT !.op = "reset", !.recomputed = FALSE]
    /\ calls' = calls + 1
    /\ UNCHANGED <<plugin, phase, standalone, shell>>

StereoProcess(input) ==
    /\ phase = "stereo" /\ calls < MaxStereoCalls
    /\ \E r \in {processRightChannel(proc, input)}, l \in {processSample(other, input)} :
          /\ proc' = r.proc
          /\ other' = l.proc
          /\ last' = [NoCall EXCEPT !.op = "stereoProcess", !.input = input,
                                    !.recomputed = FALSE, !.res = r,
                                    !.resOther = l]
    /\ calls' = calls + 1
    /\ UNCHANGED <<plugin, phase, standalone, shell>>

NextStereo ==
    \/ \E sampleRate \in StereoRates : StereoSetSampleRate(sampleRate)
    \/ \E biasStrength \in StereoBiasValues : StereoSetParameters(biasStrength, One)
    \/ StereoReset
    \/ \E input \in StereoInputs : StereoProcess(input)

SpecStereo == InitStereo /\ [][NextStereo]_vars


(***************************************************************************)
(* The auto-gain link of the plugin.  A trim parameter holds a value of    *)
(* its range, which has the step 0.01: trims are counted in hundredths.    *)
(* parameterChanged is entered when the input trim is moved; from its call *)
(* of setValueNotifyingHost until that call returns, further notifications *)
(* can reach parameterChanged.                                             *)
(***************************************************************************)
\* NormalisableRange<float> (0.25f, 8.0f, 0.01f, 0.4f)
InputTrimMin == 25
InputTrimMax == 800
\* NormalisableRange<float> (0.1f, 3.0f, 0.01f, 0.5f); std::clamp (.., 0.1f, 3.0f)
OutputTrimMin == 10
OutputTrimMax == 300
PARAM_INPUT_TRIM == "inputTrim"
PARAM_OUTPUT_TRIM == "outputTrim"

\* The condition of parameterChanged without the recursion guard.
IsInputTrimIgnoringGuard(parameterID, updating) == parameterID = PARAM_INPUT_TRIM

\* parameterID == PARAM_INPUT_TRIM && !isUpdatingOutputTrim
IsInputTrimOutsideUpdate(parameterID, updating) ==
    parameterID = PARAM_INPUT_TRIM /\ ~updating

\* The value the output trim parameter holds after
\* setValueNotifyingHost (convertTo0to1 (newOutputTrim)), where newOutputTrim
\* is clamp (currentOutputTrim * (lastInputTrimValue / newValue), 0.1, 3.0):
\* the legal value of the range nearest to newOutputTrim.
NewOutputTrim(currentOutputTrim, lastValue, newValue) ==
    IF currentOutputTrim * lastValue < OutputTrimMin * newValue THEN OutputTrimMin
    ELSE IF currentOutputTrim * lastValue > OutputTrimMax * newValue THEN OutputTrimMax
    ELSE (2 * currentOutputTrim * lastValue + newValue) \div (2 * newValue)

\* Values the input trim is moved to and the output trim is set to.
InputTrims == {25, 50, 51, 75, 100, 800}
OutputTrims == {10, 15, 100, 300}
\* parameterChanged calls per behaviour, and notifications during one write.
MaxLinkCalls == 3
MaxNested == 2

InitLink == Constructed /\ phase = "link"

\* The input trim is moved to newValue: parameterChanged (PARAM_INPUT_TRIM,
\* newValue) runs up to its call of setValueNotifyingHost, which stores the
\* output trim.
InputTrimChanged(newValue) ==
    /\ phase = "link" /\ callback.pc = "idle" /\ calls < MaxLinkCalls
    /\ newValue # inputTrimParam
    /\ inputTrimParam' = newValue
    /\ IF IsInputTrimOutsideUpdate(PARAM_INPUT_TRIM, isUpdatingOutputTrim)
       THEN /\ isUpdatingOutputTrim' = TRUE
            /\ outputTrimParam' =
                   NewOutputTrim(outputTrimParam, lastInputTrimValue, newValue)
            /\ callback' = [pc |-> "notifying", parameterID |-> PARAM_INPUT_TRIM,
                            newValue |-> newValue, recorded |-> lastInputTrimValue,
                            previousOutputTrim |-> outputTrimParam,
                            writes |-> 1, nested |-> 0]
       ELSE /\ callback' = [NoCallback EXCEPT !.parameterID = PARAM_INPUT_TRIM,
                                              !.newValue = newValue]
            /\ UNCHANGED <<isUpdatingOutputTrim, outputTrimParam, standalone>>
    /\ calls' = calls + 1
    /\ UNCHANGED <<proc, other, tapeProcessorLeft, tapeProcessorRight,
                   machineModeParam, phase, last, lastInputTrimValue, standalone, shell>>

\* The output trim is set to newValue; parameterChanged listens to the input
\* trim only.
OutputTrimChanged(newValue) ==
    /\ phase = "link" /\ callback.pc = "idle" /\ calls < MaxLinkCalls
    /\ newValue # outputTrimParam
    /\ outputTrimParam' = newValue
    /\ callback' = NoCallback
    /\ calls' = calls + 1
    /\ UNCHANGED <<proc, other, tapeProcessorLeft, tapeProcessorRight,
                   machineModeParam, phase, last, inputTrimParam,
                   lastInputTrimValue, isUpdatingOutputTrim, standalone, shell>>

\* A notification reaches parameterChanged while setValueNotifyingHost is
\* writing the output trim, on the calling thread (a listener of the output
\* trim moves a parameter) or on another thread (the host automates a
\* parameter while the editor moves one): isUpdatingOutputTrim is a plain
\* bool, the second call reads it as the first call left it and runs from
\* its entry to its return.
NestedParameterChanged(parameterID, newValue) ==
    /\ phase = "link" /\ callback.pc = "notifying" /\ callback.nested < MaxNested
    /\ inputTrimParam' = IF parameterID = PARAM_INPUT_TRIM THEN newValue
                         ELSE inputTrimParam
    /\ IF IsInputTrimOutsideUpdate(parameterID, isUpdatingOutputTrim)
       THEN /\ outputTrimParam' =
                   NewOutputTrim(outputTrimParam, lastInputTrimValue, newValue)
            /\ isUpdatingOutputTrim' = FALSE
            /\ lastInputTrimValue' = newValue
            /\ callback' = [callback EXCEPT !.writes = @ + 1, !.nested = @ + 1]
       ELSE /\ outputTrimParam' = IF parameterID = PARAM_OUTPUT_TRIM THEN newValue
                                  ELSE outputTrimParam
            /\ callback' = [callback EXCEPT !.nested = @ + 1]
            /\ UNCHANGED <<isUpdatingOutputTrim, lastInputTrimValue, standalone>>
    /\ UNCHANGED <<proc, other, tapeProcessorLeft, tapeProcessorRight,
                   machineModeParam, phase, calls, last, standalone, shell>>

\* setValueNotifyingHost returns into parameterChanged, which clears the
\* guard, records the input trim and returns.
ParameterChangedReturn ==
    /\ phase = "link" /\ callback.pc = "notifying"
    /\ isUpdatingOutputTrim' = FALSE
    /\ lastInputTrimValue' = callback.newValue
    /\ callback' = [callback EXCEPT !.pc = "idle"]
    /\ UNCHANGED <<proc, other, tapeProcessorLeft, tapeProcessorRight,
                   machineModeParam, phase, calls, last, inputTrimParam,
                   outputTrimParam, standalone, shell>>

PARAM_MACHINE_MODE == "machineMode"

\* The parameters of the plugin with the member of the link that is read
\* between calls, as one record; a parameter is a field named by its ID.
PluginParameters ==
    [machineMode |-> machineModeParam, inputTrim |-> inputTrimParam,
     outputTrim |-> outputTrimParam, lastInputTrimValue |-> lastInputTrimValue]

\* parameters.copyState(): the value of every parameter of the layout.
copyState(st) ==
    [machineMode |-> st.machineMode, inputTrim |-> st.inputTrim,
     outputTrim |-> st.outputTrim]

\* parameterChanged (parameterID, newValue), called with the guard clear and
\* run to its return with no other notification in between.
parameterChanged(st, parameterID, newValue) ==
    IF IsInputTrimOutsideUpdate(parameterID, FALSE)
    THEN [st EXCEPT !.outputTrim =
                        NewOutputTrim(st.outputTrim, st.lastInputTrimValue, newValue),
                    !.lastInputTrimValue = newValue]
    ELSE st

\* The listener is registered for the input trim only:
\* parameters.addParameterListener (PARAM_INPUT_TRIM, this)
Listened == {PARAM_INPUT_TRIM}

\* A parameter is given a value of the restored tree: a value that differs
\* from the one it holds is stored and its listeners are notified.
RestoreParameter(st, parameterID, value) ==
    IF st[parameterID] = value THEN st
    ELSE IF parameterID \in Listened
    THEN parameterChanged([st EXCEPT ![parameterID] = value], parameterID, value)
    ELSE [st EXCEPT ![parameterID] = value]

\* The order of restoring with the output trim before the input trim.
OutputTrimRestoredFirst == <<PARAM_MACHINE_MODE, PARAM_OUTPUT_TRIM, PARAM_INPUT_TRIM>>

\* The parameters in the order of the layout, which is also the order of
\* their IDs: the order in which replaceState hands the values of the tree
\* to the parameters.
ParameterLayout == <<PARAM_MACHINE_MODE, PARAM_INPUT_TRIM, PARAM_OUTPUT_TRIM>>

RECURSIVE replaceStateFrom(_, _, _)
replaceStateFrom(st, state, i) ==
    IF i > Len(ParameterLayout) THEN st
    ELSE replaceStateFrom(RestoreParameter(st, ParameterLayout[i],
                                           state[ParameterLayout[i]]),
                          state, i + 1)

\* parameters.replaceState (state)
replaceState(st, state) == replaceStateFrom(st, state, 1)

NextLink ==
    \/ \E newValue \in InputTrims : InputTrimChanged(newValue)
    \/ \E newValue \in OutputTrims : OutputTrimChanged(newValue)
    \/ \E newValue \in InputTrims : NestedParameterChanged(PARAM_INPUT_TRIM, newValue)
    \/ \E newValue \in OutputTrims : NestedParameterChanged(PARAM_OUTPUT_TRIM, newValue)
    \/ ParameterChangedReturn

SpecLink == InitLink /\ [][NextLink]_vars

(***************************************************************************)
(* Saving and restoring the state of the plugin.  The host moves           *)
(* parameters, asks for the state, may replace the instance by a new one   *)
(* and hands the blob back; each call runs to its return before the next.  *)
(***************************************************************************)
\* Calls per behaviour.
MaxStateCalls == 5

InitState == Constructed /\ phase = "state"

\* The plugin after a call that left its parameters and the recorded input
\* trim as in st.
PluginBecomes(st) ==
    /\ machineModeParam' = st.machineMode
    /\ inputTrimParam' = st.inputTrim
    /\ outputTrimParam' = st.outputTrim
    /\ lastInputTrimValue' = st.lastInputTrimValue
    /\ UNCHANGED <<proc, other, tapeProcessorLeft, tapeProcessorRight, phase,
                   isUpdatingOutputTrim, callback, standalone, shell>>

\* The host or the editor moves a parameter; its listeners are notified.
ParameterMoved(parameterID, value) ==
    /\ phase = "state" /\ calls < MaxStateCalls
    /\ PluginParameters[parameterID] # value
    /\ PluginBecomes(RestoreParameter(PluginParameters, parameterID, value))
    /\ calls' = calls + 1
    /\ UNCHANGED last

\* getStateInformation: the host receives the blob.
GetStateInformation ==
    /\ phase = "state" /\ calls < MaxStateCalls
    /\ calls' = calls + 1
    /\ last' = [op |-> "getStateInformation", state |-> copyState(PluginParameters),
                at |-> calls']
    /\ UNCHANGED <<proc, other, plugin, phase, standalone, shell>>

\* The host discards the plugin instance and constructs a new one; it keeps
\* the blob.
ConstructInstance ==
    /\ phase = "state" /\ calls < MaxStateCalls
    /\ last.op = "getStateInformation"
    /\ PluginBecomes([machineMode |-> 0, inputTrim |-> 50, outputTrim |-> 100,
                      lastInputTrimValue |-> 50])
    /\ calls' = calls + 1
    /\ UNCHANGED last

\* setStateInformation with the blob the host holds: the tag matches and
\* replaceState runs, notifying parameterChanged of a restored input trim.
SetStateInformation ==
    /\ phase = "state" /\ calls < MaxStateCalls
    /\ last.op \in {"getStateInformation", "setStateInformation"}
    /\ PluginBecomes(replaceState(PluginParameters, last.state))
    /\ calls' = calls + 1
    /\ last' = [op |-> "setStateInformation", state |-> last.state, at |-> calls']

NextState ==
    \/ \E machineMode \in {0, 1} : ParameterMoved(PARAM_MACHINE_MODE, machineMode)
    \/ \E newValue \in InputTrims : ParameterMoved(PARAM_INPUT_TRIM, newValue)
    \/ \E newValue \in OutputTrims : ParameterMoved(PARAM_OUTPUT_TRIM, newValue)
    \/ GetStateInformation
    \/ ConstructInstance
    \/ SetStateInformation

SpecState == InitState /\ [][NextState]_vars



(***************************************************************************)
(* HFCut and HFRestore driven as a pair: each is configured, both are      *)
(* reset, and samples run through the two in series, in one order per      *)
(* behaviour.                                                              *)
(***************************************************************************)
\* A rate at which the Nyquist clamps act, and three host rates.
ShieldingRates == {32000, 44100, 48000, 96000}
ShieldingInputs == {Zero, One, F(-5, -1)}
\* Rates given to MachineEQ: a host rate and its double.
MachineEQRates == {44100, 88200}
\* Samples per behaviour.
MaxShieldingSamples == 3

InitShielding == Constructed /\ phase = "shielding"

\* HFCut::setSampleRate(sampleRate): fs = sampleRate; updateCoefficients().
SetSampleRateHFCut(sampleRate) ==
    /\ phase = "shielding"
    /\ hfCut' = HFCutUpdateCoefficients([hfCut EXCEPT !.fs = sampleRate])
    /\ UNCHANGED <<proc, other, plugin, calls, last, hfRestore, machineEQ, ramp, phase, shell>>

\* HFCut::setMachineMode(isAmpex): only a change of mode designs the sections
\* anew.
SetMachineModeHFCut(isAmpex) ==
    /\ phase = "shielding"
    /\ hfCut' = IF hfCut.ampexMode # isAmpex
                THEN HFCutUpdateCoefficients([hfCut EXCEPT !.ampexMode = isAmpex])
                ELSE hfCut
    /\ UNCHANGED <<proc, other, plugin, calls, last, hfRestore, machineEQ, ramp, phase, shell>>

\* HFRestore::setSampleRate(sampleRate).
SetSampleRateHFRestore(sampleRate) ==
    /\ phase = "shielding"
    /\ hfRestore' = HFRestoreUpdateCoefficients([hfRestore EXCEPT !.fs = sampleRate])
    /\ UNCHANGED <<proc, other, plugin, calls, last, hfCut, machineEQ, ramp, phase, shell>>

\* HFRestore::setMachineMode(isAmpex).
SetMachineModeHFRestore(isAmpex) ==
    /\ phase = "shielding"
    /\ hfRestore' = IF hfRestore.ampexMode # isAmpex
                    THEN HFRestoreUpdateCoefficients([hfRestore EXCEPT !.ampexMode = isAmpex])
                    ELSE hfRestore
    /\ UNCHANGED <<proc, other, plugin, calls, last, hfCut, machineEQ, ramp, phase, shell>>

\* MachineEQ::setSampleRate(sampleRate): fs = sampleRate; updateCoefficients().
SetSampleRateMachineEQ(sampleRate) ==
    /\ phase = "shielding"
    /\ machineEQ' = [machineEQ EXCEPT !.fs = sampleRate, !.designedFor = sampleRate]
    /\ UNCHANGED <<proc, other, plugin, calls, last, hfCut, hfRestore, ramp, phase, shell>>

\* One sample through HFCut and then through HFRestore.
CutThenRestore(input) ==
    /\ phase \in {"shielding", "cutThenRestore"} /\ calls < MaxShieldingSamples
    /\ \E c \in {ShieldingProcessSample(hfCut, input)} :
        \E r \in {ShieldingProcessSample(hfRestore, c[2])} :
          /\ hfCut' = c[1]
          /\ hfRestore' = r[1]
          /\ last' = [NoCall EXCEPT !.op = "cutThenRestore", !.input = input,
                                    !.res = [output |-> r[2]]]
    /\ phase' = "cutThenRestore"
    /\ calls' = calls + 1
    /\ UNCHANGED <<proc, other, plugin, machineEQ, ramp, shell>>

\* One sample through HFRestore and then through HFCut.
RestoreThenCut(input) ==
    /\ phase \in {"shielding", "restoreThenCut"} /\ calls < MaxShieldingSamples
    /\ \E r \in {ShieldingProcessSample(hfRestore, input)} :
        \E c \in {ShieldingProcessSample(hfCut, r[2])} :
          /\ hfCut' = c[1]
          /\ hfRestore' = r[1]
          /\ last' = [NoCall EXCEPT !.op = "restoreThenCut", !.input = input,
                                    !.res = [output |-> c[2]]]
    /\ phase' = "restoreThenCut"
    /\ calls' = calls + 1
    /\ UNCHANGED <<proc, other, plugin, machineEQ, ramp, shell>>

NextShielding ==
    \/ \E sampleRate \in ShieldingRates : SetSampleRateHFCut(sampleRate)
    \/ \E isAmpex \in BOOLEAN : SetMachineModeHFCut(isAmpex)
    \/ \E sampleRate \in ShieldingRates : SetSampleRateHFRestore(sampleRate)
    \/ \E isAmpex \in BOOLEAN : SetMachineModeHFRestore(isAmpex)
    \/ \E sampleRate \in MachineEQRates : SetSampleRateMachineEQ(sampleRate)
    \/ \E input \in ShieldingInputs : CutThenRestore(input)
    \/ \E input \in ShieldingInputs : RestoreThenCut(input)

SpecShielding == InitShielding /\ [][NextShielding]_vars


(***************************************************************************)
(* Ramp scenario: two JilesAthertonCore objects with the same parameters   *)
(* and sample rate.  One receives the field values 0.2, 0.4, ... in        *)
(* ascending order, the other the same values in descending order;         *)
(* ramp.up and ramp.down are the values process returned, in call order.   *)
(***************************************************************************)
\* Field values per ramp.
RampLength == 5
\* double H = 0.2 * (i + 1), for k = i + 1.
RampField(k) == F(2 * k, -1)
RampParameters == {DefaultParameters, AmpexProfile.jaParams, StuderProfile.jaParams}
RampRates == {48000, 96000}

InitRamp == Constructed /\ phase = "ramp"

\* setParameters(p) on both cores, before the ramps start.
RampSetParameters(p) ==
    /\ phase = "ramp" /\ ramp.up = << >> /\ ramp.down = << >>
    /\ ramp' = [ramp EXCEPT !.ascending = JASetParameters(@, p),
                            !.descending = JASetParameters(@, p)]
    /\ UNCHANGED <<proc, other, plugin, phase, calls, last, hfCut, hfRestore, machineEQ, shell>>

\* setSampleRate(sr) on both cores, before the ramps start.
RampSetSampleRate(sr) ==
    /\ phase = "ramp" /\ ramp.up = << >> /\ ramp.down = << >>
    /\ ramp' = [ramp EXCEPT !.ascending = JASetSampleRate(@, sr),
                            !.descending = JASetSampleRate(@, sr)]
    /\ UNCHANGED <<proc, other, plugin, phase, calls, last, hfCut, hfRestore, machineEQ, shell>>

\* process(H) with the next field value of the ascending ramp.
AscendingProcess ==
    /\ phase = "ramp" /\ Len(ramp.up) < RampLength
    /\ \E r \in {JAProcess(ramp.ascending, RampField(Len(ramp.up) + 1))} :
          ramp' = [ramp EXCEPT !.ascending = r[1], !.up = Append(@, r[2])]
    /\ UNCHANGED <<proc, other, plugin, phase, calls, last, hfCut, hfRestore, machineEQ, shell>>

\* process(H) with the next field value of the descending ramp.
DescendingProcess ==
    /\ phase = "ramp" /\ Len(ramp.down) < RampLength
    /\ \E r \in {JAProcess(ramp.descending, RampField(RampLength - Len(ramp.down)))} :
          ramp' = [ramp EXCEPT !.descending = r[1], !.down = Append(@, r[2])]
    /\ UNCHANGED <<proc, other, plugin, phase, calls, last, hfCut, hfRestore, machineEQ, shell>>

\* reset() on both cores; the ramps start again.
RampReset ==
    /\ phase = "ramp" /\ (ramp.up # << >> \/ ramp.down # << >>)
    /\ ramp' = [ramp EXCEPT !.ascending = JAReset(@), !.descending = JAReset(@),
                            !.up = << >>, !.down = << >>]
    /\ UNCHANGED <<proc, other, plugin, phase, calls, last, hfCut, hfRestore, machineEQ, shell>>

NextRamp ==
    \/ \E p \in RampParameters : RampSetParameters(p)
    \/ \E sr \in RampRates : RampSetSampleRate(sr)
    \/ AscendingProcess
    \/ DescendingProcess
    \/ RampReset

SpecRamp == InitRamp /\ [][NextRamp]_vars


(***************************************************************************)
(* Kernel scenario: the private numerical functions of the DSP core,       *)
(* called with arguments drawn from sets that reach every branch; `last`   *)
(* records the call and what it returned.  The functions keep no state,    *)
(* so each behaviour makes one call.                                       *)
(***************************************************************************)
\* atanDrive on both sides of the 0.001 test, the member initialiser 0.5 and
\* the two profile values.
AtanDrives ==
    {F(-1, 0), Zero, F(5, -4), F(999, -6), F(1, -3), F(5, -1), F(5, 0), F(55, -1)}
\* atanAsymmetry: the two profile values, and one for which normFactor falls
\* below its 0.001 test.
AtanAsymmetries == {One, F(125, -2), F(101, 0)}
KernelInputs == {Zero, F(1, -6), F(5, -1), F(-2, 0), F(1, 3)}

InitKernel == Constructed /\ phase = "kernel"

\* softAtan(x)
SoftAtan(drive, x) ==
    /\ phase = "kernel" /\ last = NoCall
    /\ \E p \in {[NewProcessor EXCEPT !.atanDrive = drive]} :
          last' = [op |-> "softAtan", atanDrive |-> drive, x |-> x,
                   res |-> softAtanTrace(p, x), output |-> softAtan(p, x)]
    /\ UNCHANGED <<proc, other, plugin, autoGain, phase, calls, standalone, shell>>

\* asymmetricAtan(x)
AsymmetricAtan(drive, asymmetry, x) ==
    /\ phase = "kernel" /\ last = NoCall
    /\ \E p \in {[NewProcessor EXCEPT !.atanDrive = drive,
                                      !.atanAsymmetry = asymmetry]} :
          last' = [op |-> "asymmetricAtan", atanDrive |-> drive, x |-> x,
                   atanAsymmetry |-> asymmetry,
                   res |-> asymmetricAtanTrace(p, x),
                   output |-> asymmetricAtan(p, x)]
    /\ UNCHANGED <<proc, other, plugin, autoGain, phase, calls, standalone, shell>>

\* Arguments of the Langevin functions on both sides of the 1e-4 test.
LangevinInputs ==
    {Zero, F(1, -6), F(-5, -5), F(9999, -8), F(1, -4), F(-1, -4), F(2, -4),
     F(1, -2), F(-3, -1), One, F(5, 0), F(-7, 0), F(1, 3)}

\* langevin(x) and langevinD(x), as the loop body of solveNR8 calls them on
\* the same argument.
Langevin(x) ==
    /\ phase = "kernel" /\ last = NoCall
    /\ last' = [op |-> "langevin", x |-> x,
                L |-> langevinTrace(x), Ld |-> langevinDTrace(x),
                output |-> langevinPair(x)]
    /\ UNCHANGED <<proc, other, plugin, autoGain, phase, calls, standalone, shell>>

\* Arguments of one solver iteration: the field, its derivative (whose sign
\* is delta) and a magnetisation within [-M_s, M_s].
SolverFields == {Zero, F(1, -6), F(2, -1), F(-1, 0), F(1, 3)}
SolverDerivatives == {F(-96, 2), Zero, F(96, 2)}
SolverMagnetisations == {F(-1, 0), F(-5, -1), Zero, F(1, -3), F(5, -1), One}

\* One iteration of solveNR8 on a core holding a profile's parameter set.
SolverIteration(ampex, H, H_d, M) ==
    /\ phase = "kernel" /\ last = NoCall
    /\ \E ja \in {JASetSampleRate(
                    JASetParameters(JACoreNew,
                       IF ampex THEN AmpexProfile.jaParams ELSE StuderProfile.jaParams),
                    96000)} :
          last' = [op |-> "solveNR8", params |-> ja.params, H |-> H, H_d |-> H_d,
                   M |-> M,
                   res |-> NRDivisors(ja, H, H_d,
                                      IF FGe(H_d, Zero) THEN One ELSE FNeg(One), M),
                   output |-> NRStep(ja, H, H_d,
                                     IF FGe(H_d, Zero) THEN One ELSE FNeg(One), M)]
    /\ UNCHANGED <<proc, other, plugin, autoGain, phase, calls, standalone, shell>>

NextKernel ==
    \/ \E drive \in AtanDrives, x \in KernelInputs : SoftAtan(drive, x)
    \/ \E drive \in AtanDrives, asymmetry \in AtanAsymmetries, x \in KernelInputs :
          AsymmetricAtan(drive, asymmetry, x)
    \/ \E x \in LangevinInputs : Langevin(x)
    \/ \E ampex \in BOOLEAN, H \in SolverFields, H_d \in SolverDerivatives,
          M \in SolverMagnetisations : SolverIteration(ampex, H, H_d, M)

SpecKernel == InitKernel /\ [][NextKernel]_vars

(***************************************************************************)
(* processBlock of a plugin instance and the calls of the host.            *)
(***************************************************************************)
\* The per-sample loop of processBlock on a block the oversampler returned
\* with one channel: the left processor only.
RECURSIVE MonoLoop(_, _, _, _)
MonoLoop(l, r, block, i) ==
    IF i > Len(block) THEN <<l, r>>
    ELSE CHOOSE x \in {MonoLoop(res.proc, r, block, i + 1) :
                       res \in {processSample(l, block[i][1])}} : TRUE

\* The crosstalk stage runs: machineMode == 1 && totalNumInputChannels >= 2.
\* This version runs it in either mode.
CrosstalkRunsInEitherMode(machineMode, channels) == channels >= 2

CrosstalkRuns(machineMode, channels) == machineMode = 1 /\ channels >= 2

\* The loop of the crosstalk stage from sample i on.
\* Returns <<filter, buffer, crosstalk samples>>.
RECURSIVE CrosstalkLoop(_, _, _, _, _)
CrosstalkLoop(c, buffer, i, out, added) ==
    IF i > Len(buffer) THEN <<c, out, added>>
    ELSE CHOOSE x \in
           {CrosstalkLoop(r[1], buffer, i + 1,
                          Append(out, <<FAdd(buffer[i][1], r[2]),
                                        FAdd(buffer[i][2], r[2])>>),
                          Append(added, r[2])) :
              r \in {CrosstalkProcess(c, FMul(FAdd(buffer[i][1], buffer[i][2]),
                                              F(5, -1)))}} : TRUE

\* One sample through the head-bump modulator, the tolerance EQ or the
\* print-through line.
StageSample(stage, s, left, right, modGain) ==
    CASE stage = "headBump" -> HeadBumpProcessSample(s, left, right, modGain)
      [] stage = "tolerance" -> ToleranceProcessSample(s, left, right)
      [] stage = "printThrough" -> PrintThroughProcessSample(s, left, right)

\* The loop of one of these stages from sample i on.  With two channels the
\* right sample is the buffer's; with one it is the local dummy, which
\* starts at 0.0f and is passed by reference in every iteration.
\* Returns <<stage object, buffer>>.
RECURSIVE StageLoop(_, _, _, _, _, _, _, _)
StageLoop(stage, s, buffer, stereo, modGain, i, dummy, out) ==
    IF i > Len(buffer) THEN <<s, out>>
    ELSE CHOOSE x \in
           {StageLoop(stage, r[1], buffer, stereo, modGain, i + 1, r[3],
                      Append(out, <<r[2], IF stereo THEN r[3] ELSE buffer[i][2]>>)) :
              r \in {StageSample(stage, s, buffer[i][1],
                                 IF stereo THEN buffer[i][2] ELSE dummy,
                                 modGain)}} : TRUE

\* processBlock up to the downsampling: setParameters on both processors
\* from the Machine Mode parameter and the per-sample loop on the oversampled
\* block; the buffer is then what the oversampler returns.
TapeStage(inst, lastMode, block) ==
    CHOOSE s \in
      {[instance |-> [inst EXCEPT !.tapeProcessorLeft = lr[1],
                                  !.tapeProcessorRight = lr[2]],
        lastMachineMode |-> lastMode, machineMode |-> inst.machineMode,
        buffer |-> block.down, down |-> block.down, crosstalk |-> << >>,
        afterCrosstalk |-> << >>, prepared |-> FALSE, afterHeadBump |-> << >>,
        afterTolerance |-> << >>, afterPrintThrough |-> << >>] :
         lr \in {IF block.up # << >> /\ Len(block.up[1]) = 1
                 THEN MonoLoop(setParameters(inst.tapeProcessorLeft,
                                             BiasOfMode(inst.machineMode), One),
                               setParameters(inst.tapeProcessorRight,
                                             BiasOfMode(inst.machineMode), One),
                               block.up, 1)
                 ELSE BlockLoop(setParameters(inst.tapeProcessorLeft,
                                              BiasOfMode(inst.machineMode), One),
                                setParameters(inst.tapeProcessorRight,
                                              BiasOfMode(inst.machineMode), One),
                                block.up, 1)}} : TRUE

\* === CROSSTALK: Studer mode only ===
CrosstalkStage(s, channels) ==
    IF CrosstalkRuns(s.machineMode, channels)
    THEN CHOOSE t \in
           {[s EXCEPT !.instance.crosstalkFilter = r[1], !.buffer = r[2],
                      !.crosstalk = r[3], !.afterCrosstalk = r[2]] :
              r \in {CrosstalkLoop(s.instance.crosstalkFilter, s.buffer, 1,
                                   << >>, << >>)}} : TRUE
    ELSE [s EXCEPT !.afterCrosstalk = s.buffer]

\* === HEAD BUMP MODULATION: Both modes ===  The modulator and the tolerance
\* EQ are prepared again when machineMode differs from lastMachineMode, a
\* static local of processBlock; then the LFO is read and the block runs
\* through the modulator.
HeadBumpStage(s, channels, d, lfo) ==
    CHOOSE t \in
      {[s EXCEPT !.instance.headBumpModulator = r[1],
                 !.instance.toleranceEQ = q.toleranceEQ,
                 !.lastMachineMode = s.machineMode,
                 !.prepared = s.machineMode # s.lastMachineMode,
                 !.buffer = r[2], !.afterHeadBump = r[2]] :
         q \in {IF s.machineMode # s.lastMachineMode
                THEN [headBumpModulator |->
                          HeadBumpPrepare(s.instance.headBumpModulator,
                                          s.instance.sampleRate, s.machineMode = 0),
                      toleranceEQ |->
                          TolerancePrepare(s.instance.toleranceEQ, d,
                                           s.instance.sampleRate, channels >= 2,
                                           s.machineMode = 0)]
                ELSE [headBumpModulator |-> s.instance.headBumpModulator,
                      toleranceEQ |-> s.instance.toleranceEQ]},
         r \in {LET h == IF s.machineMode # s.lastMachineMode
                         THEN HeadBumpPrepare(s.instance.headBumpModulator,
                                              s.instance.sampleRate,
                                              s.machineMode = 0)
                         ELSE s.instance.headBumpModulator
                IN  StageLoop("headBump", h, s.buffer, channels >= 2,
                              updateLFO(h, lfo), 1, Zero, << >>)}} : TRUE

\* === TOLERANCE EQ: Both modes, machine-specific ===
ToleranceStage(s, channels) ==
    CHOOSE t \in
      {[s EXCEPT !.instance.toleranceEQ = r[1], !.buffer = r[2],
                 !.afterTolerance = r[2]] :
         r \in {StageLoop("tolerance", s.instance.toleranceEQ, s.buffer,
                          channels >= 2, One, 1, Zero, << >>)}} : TRUE

\* The print-through stage runs: machineMode == 1, with two channels or one.
PrintThroughRuns(machineMode, channels) == machineMode = 1 /\ channels >= 1

\* === PRINT-THROUGH: Studer mode only ===
PrintThroughStage(s, channels) ==
    IF PrintThroughRuns(s.machineMode, channels)
    THEN CHOOSE t \in
           {[s EXCEPT !.instance.printThrough = r[1], !.buffer = r[2],
                      !.afterPrintThrough = r[2]] :
              r \in {StageLoop("printThrough", s.instance.printThrough, s.buffer,
                               channels >= 2, One, 1, Zero, << >>)}} : TRUE
    ELSE [s EXCEPT !.afterPrintThrough = s.buffer]

\* channelData[sample] *= outputTrimValue * finalMakeupGain, on the channels
\* the instance has.
OutputStage(s, channels) ==
    [s EXCEPT !.buffer =
        [k \in 1..Len(s.buffer) |->
            <<FMul(s.buffer[k][1], FMul(s.instance.outputTrim, Two)),
              IF channels >= 2
              THEN FMul(s.buffer[k][2], FMul(s.instance.outputTrim, Two))
              ELSE s.buffer[k][2]>>]]

\* processBlock(buffer, midiMessages) of one instance: the record of the
\* instance, the static lastMachineMode and the buffer after the call, with
\* the buffer as each stage left it.
processBlock(inst, lastMode, channels, d, lfo, block) ==
    CHOOSE r \in
      {OutputStage(s5, channels) :
         s5 \in {PrintThroughStage(s4, channels) :
           s4 \in {ToleranceStage(s3, channels) :
             s3 \in {HeadBumpStage(s2, channels, d, lfo) :
               s2 \in {CrosstalkStage(s1, channels) :
                 s1 \in {TapeStage(inst, lastMode, block)}}}}}} : TRUE

\* Blocks of an instance: what the oversampler hands to the tape processors
\* (two oversampled samples per sample, of two channels or, for a mono
\* layout, possibly of one) and the block it returns after downsampling, as
\* <<left, right>> samples (right is unused with one channel).
ShellBlocks(channels) ==
    { [up |-> << >>, down |-> << >>],
      [up |-> << <<F(5, -1), F(5, -1)>>, <<F(-25, -2), F(5, -1)>> >>,
       down |-> << <<F(5, -1), F(-25, -2)>> >>],
      [up |-> << <<F(-2, 0), Zero>>, <<F(5, -1), Zero>> >>,
       down |-> << <<F(-2, 0), F(2, -3)>> >>] }
    \cup (IF channels = 1
          THEN { [up |-> << <<F(5, -1)>>, <<F(-25, -2)>> >>,
                  down |-> << <<F(5, -1), Zero>> >>] }
          ELSE {})

\* processBlock calls per behaviour.
MaxShellBlocks == 2

\* The host has constructed the plugin instances.
InitShell ==
    Members /\ instances = [i \in Instances |-> InstanceNew] /\ phase = "shell"

\* The host moves the Machine Mode parameter of instance i.
ShellSetMachineMode(i, machineMode) ==
    /\ phase = "shell"
    /\ instances[i].machineMode # machineMode
    /\ instances' = [instances EXCEPT ![i].machineMode = machineMode]
    /\ last' = [op |-> "setMachineMode"]
    /\ UNCHANGED <<proc, other, plugin, phase, calls, standalone, lastMachineMode>>

\* The host calls prepareToPlay of instance i.
ShellPrepareToPlay(i) ==
    /\ phase = "shell"
    /\ instances' = [instances EXCEPT
                       ![i] = prepareToPlay(instances[i], ChannelsOf[i],
                                            ToleranceOf[i], HostRateOf[i])]
    /\ last' = [op |-> "prepareToPlay"]
    /\ UNCHANGED <<proc, other, plugin, phase, calls, standalone, lastMachineMode>>

\* The host calls processBlock of instance i, which it has prepared.
ShellProcessBlock(i, block) ==
    /\ phase = "shell" /\ calls < MaxShellBlocks
    /\ instances[i].prepared
    /\ \E r \in {processBlock(instances[i], lastMachineMode, ChannelsOf[i],
                              ToleranceOf[i], LFOOf[i], block)} :
          /\ instances' = [instances EXCEPT ![i] = r.instance]
          /\ lastMachineMode' = r.lastMachineMode
          /\ last' = [op |-> "processBlock", instance |-> i,
                      channels |-> ChannelsOf[i], machineMode |-> r.machineMode,
                      numSamples |-> Len(r.down), down |-> r.down,
                      crosstalk |-> r.crosstalk,
                      afterCrosstalk |-> r.afterCrosstalk, prepared |-> r.prepared,
                      afterHeadBump |-> r.afterHeadBump,
                      afterTolerance |-> r.afterTolerance,
                      afterPrintThrough |-> r.afterPrintThrough,
                      output |-> r.buffer,
                      preparedForAmpex |->
                          <<r.instance.headBumpModulator.centerFreq = 40,
                            r.instance.toleranceEQ.isAmpex>>]
    /\ calls' = calls + 1
    /\ UNCHANGED <<proc, other, plugin, phase, standalone>>

NextShell ==
    \/ \E i \in Instances, machineMode \in {0, 1} : ShellSetMachineMode(i, machineMode)
    \/ \E i \in Instances : ShellPrepareToPlay(i)
    \/ \E i \in Instances : \E block \in ShellBlocks(ChannelsOf[i]) :
          ShellProcessBlock(i, block)

SpecShell == InitShell /\ [][NextShell]_vars



(***************************************************************************)
(* Properties.                                                             *)
(***************************************************************************)
\* The values updateCachedValues assigns, read back from a processor.
Coefficients(p) ==
    [isAmpexMode |-> p.isAmpexMode, jaParams |-> p.jaCore.params,
     oneOverA |-> p.jaCore.oneOverA, Q |-> p.jaCore.Q, cAlpha |-> p.jaCore.cAlpha,
     jaInputScale |-> p.jaInputScale, jaOutputScale |-> p.jaOutputScale,
     tanhDrive |-> p.tanhDrive, tanhAsymmetry |-> p.tanhAsymmetry,
     jaBlendMax |-> p.jaBlendMax, jaBlendThreshold |-> p.jaBlendThreshold,
     jaBlendWidth |-> p.jaBlendWidth, atanDrive |-> p.atanDrive,
     atanMixMax |-> p.atanMixMax, atanThreshold |-> p.atanThreshold,
     atanWidth |-> p.atanWidth, atanAsymmetry |-> p.atanAsymmetry,
     useAsymmetricAtan |-> p.useAsymmetricAtan,
     cachedDelaySamples |-> p.cachedDelaySamples]

\* p holds the parameter set of the profile prof.
HasProfile(p, prof) ==
    /\ p.jaCore.params = prof.jaParams
    /\ p.jaInputScale = prof.jaInputScale /\ p.jaOutputScale = prof.jaOutputScale
    /\ p.tanhDrive = prof.tanhDrive /\ p.tanhAsymmetry = prof.tanhAsymmetry
    /\ p.jaBlendMax = prof.jaBlendMax /\ p.jaBlendThreshold = prof.jaBlendThreshold
    /\ p.jaBlendWidth = prof.jaBlendWidth
    /\ p.atanDrive = prof.atanDrive /\ p.atanMixMax = prof.atanMixMax
    /\ p.atanThreshold = prof.atanThreshold /\ p.atanWidth = prof.atanWidth
    /\ p.atanAsymmetry = prof.atanAsymmetry
    /\ p.useAsymmetricAtan = prof.useAsymmetricAtan
IsMaster(p) == p.isAmpexMode /\ HasProfile(p, AmpexProfile)
IsTracks(p) == ~p.isAmpexMode /\ HasProfile(p, StuderProfile)

\* C1: for every input in [-1000, 1000], either profile and every sample
\* rate, after any sequence of calls, processSample and processRightChannel
\* return a finite value, neither NaN nor Inf.
C1_OutputsFinite ==
    last.op \in {"processSample", "processRightChannel"} =>
        /\ last.res.output # NonFinite
        /\ \A i \in 1 .. NRIterations : last.res.iterates[i] # NonFinite
\* processRightChannel returned a nonzero finite value for the input -1000
\* at an input gain of 200.
C1_ExtremeInputProcessed ==
    /\ last.op = "processRightChannel"
    /\ last.input = F(-1000, 0)
    /\ proc.currentInputGain = F(200, 0)
    /\ last.res.output \notin {Zero, NonFinite}

\* C3: in every processRightChannel call the azimuth delay is strictly
\* smaller than DELAY_BUFFER_SIZE samples, and the write index and the two
\* read indices lie in [0, DELAY_BUFFER_SIZE).
C3_DelayFitsBuffer ==
    last.op = "processRightChannel" =>
        /\ proc.cachedDelaySamples < DELAY_BUFFER_SIZE * MicroPerSample
        /\ last.res.written \in 0 .. DELAY_BUFFER_SIZE - 1
        /\ last.res.readIndex0 \in 0 .. DELAY_BUFFER_SIZE - 1
        /\ last.res.readIndex1 \in 0 .. DELAY_BUFFER_SIZE - 1
        /\ proc.delayWriteIndex \in 0 .. DELAY_BUFFER_SIZE - 1
\* A processRightChannel call made with a delay of DELAY_BUFFER_SIZE samples
\* or more.
C3_DelayExceedsBuffer ==
    /\ last.op = "processRightChannel"
    /\ proc.cachedDelaySamples >= DELAY_BUFFER_SIZE * MicroPerSample

\* C4: after any sequence of setSampleRate and setParameters calls the
\* derived values agree with the current profile and sample rate: the
\* parameter set is the profile's, and the cached delay is 8 microseconds
\* (Master) or 12 microseconds (Tracks) times the current sample rate.
C4_DerivedValuesCurrent ==
    /\ IsMaster(proc) \/ IsTracks(proc)
    /\ proc.isAmpexMode = IsAmpex(proc.currentBiasStrength)
    /\ proc.cachedDelaySamples = (IF proc.isAmpexMode THEN 8 ELSE 12) * proc.fs
\* A setSampleRate call has left the cached delay at the old rate's value.
C4_StaleDelay ==
    /\ last.op = "setSampleRate"
    /\ proc.cachedDelaySamples # (IF proc.isAmpexMode THEN 8 ELSE 12) * proc.fs

\* C5: processSample runs, once each and in this order: input gain, envelope
\* update, blend weight, de-emphasis, the J-A and waveshaper paths and their
\* blend, re-emphasis, machine EQ, dispersive allpass, DC blocker; it
\* returns the DC blocker's output.
C5_StageOrder ==
    last.op \in {"processSample", "processRightChannel"} =>
        last.res.stages =
            << "inputGain", "envelope", "blendWeight", "deEmphasis", "jaPath",
               "tanhPath", "blend", "reEmphasis", "machineEQ",
               "dispersiveAllpass", "dcBlocker1", "dcBlocker2" >>
\* A processSample call that returned a nonzero sample without a machine EQ
\* or dispersive allpass stage.
C5_NoMachineEQStage ==
    /\ last.op = "processSample"
    /\ last.res.output # Zero
    /\ \A i \in 1 .. Len(last.res.stages) :
          last.res.stages[i] \notin {"machineEQ", "dispersiveAllpass"}

\* C6: a setParameters call that repeats the current profile and input gain
\* performs no recomputation and writes no coefficient.
C6_RecomputeOnlyOnChange ==
    [][(/\ last'.op = "setParameters"
        /\ proc' # proc \/ last' # last
        /\ IsAmpex(ClampBias(last'.biasStrength)) = proc.isAmpexMode
        /\ last'.inputGain = proc.currentInputGain)
       => (~last'.recomputed /\ Coefficients(proc') = Coefficients(proc))]_vars
\* The second call of a run is a setParameters call that repeated the
\* constructor's profile and gain and changed a coefficient.
C6_RepeatedCallWrote ==
    /\ calls = 2
    /\ last.op = "setParameters"
    /\ last.recomputed
    /\ last.inputGain = One
    /\ proc.isAmpexMode
    /\ proc.fs # 48000
    /\ proc.cachedDelaySamples = 8 * proc.fs

\* C9: setParameters stores clamp(biasStrength, 0, 1): 0 for an argument
\* below 0, 1 for an argument above 1, the argument itself otherwise.
C9_BiasStoredClamped ==
    last.op = "setParameters" =>
        proc.currentBiasStrength =
            IF FLt(last.biasStrength, Zero) THEN Zero
            ELSE IF FGt(last.biasStrength, One) THEN One
            ELSE last.biasStrength
\* setParameters was called with a bias above 1 and stored 1.
C9_AboveRangeStored ==
    /\ last.op = "setParameters"
    /\ FGt(last.biasStrength, One)
    /\ proc.currentBiasStrength = One

\* C10: after setParameters(b, g) the processor is in the Master profile iff
\* clamp(b, 0, 1) < 0.74 and in the Tracks profile otherwise; after
\* processBlock both channel processors are in Master for machine mode 0 and
\* in Tracks for machine mode 1.
C10_ProfileByThreshold ==
    /\ last.op = "setParameters" =>
          LET b == IF FLt(last.biasStrength, Zero) THEN Zero
                   ELSE IF FGt(last.biasStrength, One) THEN One
                   ELSE last.biasStrength
          IN  IF FLt(b, F(74, -2)) THEN IsMaster(proc) ELSE IsTracks(proc)
    /\ last.op = "processBlock" =>
          IF machineModeParam = 0
          THEN IsMaster(tapeProcessorLeft) /\ IsMaster(tapeProcessorRight)
          ELSE IsTracks(tapeProcessorLeft) /\ IsTracks(tapeProcessorRight)
\* setParameters was called with exactly 0.74 and selected Tracks.
C10_ThresholdSelectsTracks ==
    /\ last.op = "setParameters"
    /\ last.biasStrength = F(74, -2)
    /\ IsTracks(proc)

\* M lies in [-M_s, M_s] for the parameters of the core ja.
WithinSaturation(ja, M) == FLe(FNeg(ja.params.M_s), M) /\ FLe(M, ja.params.M_s)

C2_ResetEqualsFresh ==
    (/\ phase = "compare"
     /\ last.op \in {"processSample", "processRightChannel"}
     /\ SameConfiguration)
    => last.res.output = last.resOther.output
\* After a reset of the used processor both processors, equally configured,
\* returned a nonzero sample from processRightChannel.
C2_ComparedAfterReset ==
    /\ phase = "compare"
    /\ last.op = "processRightChannel"
    /\ SameConfiguration
    /\ last.resOther.output # Zero
    /\ last.res.output # Zero

\* The members of a processor other than the azimuth delay line.
NonDelayState(p) ==
    [p EXCEPT !.delayBuffer = [i \in 0 .. DELAY_BUFFER_SIZE - 1 |-> Zero],
              !.delayWriteIndex = 0]

\* Linear interpolation of the circular buffer buf at the position pos, in
\* millionths of a sample, taken modulo the buffer length.
InterpolatedRead(buf, pos) ==
    LET wrapped == pos % (DELAY_BUFFER_SIZE * MicroPerSample)
        i0 == wrapped \div MicroPerSample
        i1 == (i0 + 1) % DELAY_BUFFER_SIZE
        frac == F(wrapped - i0 * MicroPerSample, -6)
    IN  FAdd(FMul(buf[i0], FSub(One, frac)), FMul(buf[i1], frac))

\* C7: when the two channels run in lockstep on the same input, their
\* non-delay state is identical, the value written to the delay buffer is
\* the left output, and the right output is the linear interpolation of the
\* delay buffer at (write index - delay).
C7_RightIsDelayedLeft ==
    last.op = "stereoProcess" =>
        /\ NonDelayState(proc) = NonDelayState(other)
        /\ proc.delayBuffer[last.res.written] = last.resOther.output
        /\ last.res.output =
             InterpolatedRead(proc.delayBuffer,
                              last.res.written * MicroPerSample
                                - proc.cachedDelaySamples)
\* A lockstep call with a delay of DELAY_BUFFER_SIZE samples or more that
\* wrote a nonzero sample.
C7_DelayBeyondBuffer ==
    /\ last.op = "stereoProcess"
    /\ proc.cachedDelaySamples >= DELAY_BUFFER_SIZE * MicroPerSample
    /\ last.resOther.output # Zero

\* C11: when a change of the input trim from the recorded value a to b has
\* been handled, the output trim is clamp(previous output trim * a / b, 0.1,
\* 3.0) and the recorded value is b; without clamping the product of the
\* two trims is the one before the change.
C11_OutputTrimInverseRatio ==
    (callback.pc = "idle" /\ callback.writes = 1 /\ callback.nested = 0) =>
        /\ lastInputTrimValue = callback.newValue
        /\ LET x == callback.previousOutputTrim * callback.recorded
               b == callback.newValue
           IN  IF x <= OutputTrimMin * b THEN outputTrimParam = OutputTrimMin
               ELSE IF x >= OutputTrimMax * b THEN outputTrimParam = OutputTrimMax
               ELSE outputTrimParam * b = x
\* A handled change has left an output trim inside its range whose product
\* with the input trim differs from the product before the change.
C11_ProductChanged ==
    /\ callback.pc = "idle" /\ callback.writes = 1 /\ callback.nested = 0
    /\ outputTrimParam \notin {OutputTrimMin, OutputTrimMax}
    /\ outputTrimParam * inputTrimParam
         # callback.previousOutputTrim * callback.recorded

\* C12: a notification that reaches parameterChanged while the guard is set
\* writes no output trim: one input trim change causes exactly one write by
\* the link, the guard is set during that write and clear whenever no
\* parameterChanged call is in progress.
C12_LinkCannotLoop ==
    /\ callback.pc = "idle" => ~isUpdatingOutputTrim
    /\ callback.pc = "notifying" => isUpdatingOutputTrim
    /\ callback.parameterID = PARAM_INPUT_TRIM => callback.writes = 1
\* An input trim notification arrived during the write and was dropped: the
\* call has returned and the recorded value is not the input trim.
C12_NestedNotificationDropped ==
    /\ callback.pc = "idle" /\ callback.nested > 0 /\ callback.writes = 1
    /\ inputTrimParam # lastInputTrimValue


\* HFCut and HFRestore are set to the same machine mode and sample rate.
SameShielding ==
    hfCut.fs = hfRestore.fs /\ hfCut.ampexMode = hfRestore.ampexMode

\* The resolution of the four-digit arithmetic on a coefficient quotient.
CoefficientTolerance == F(3, -3)

\* Section c undoes section r: its transfer function is the reciprocal, the
\* numerator of one being the denominator of the other scaled by 1/b0.
InverseSection(c, r) ==
    \A pair \in {<<c.b0, FDiv(One, r.b0)>>, <<c.b1, FDiv(r.a1, r.b0)>>,
                  <<c.b2, FDiv(r.a2, r.b0)>>, <<c.a1, FDiv(r.b1, r.b0)>>,
                  <<c.a2, FDiv(r.b2, r.b0)>>} :
        FLe(FAbs(FSub(pair[1], pair[2])), CoefficientTolerance)

\* The deviation from 1 allowed to the cascade's output for a unit input:
\* 0.1 dB is 10^(0.1/20) - 1 = 0.0116, to which the truncation of the
\* four-digit arithmetic through ten sections adds less than 0.01.
NullTolerance == F(2, -2)

\* C13: when HFCut and HFRestore are set to the same mode and sample rate,
\* each HFCut section has the type, the design frequency and the Q of the
\* corresponding HFRestore section and the negated gain, each HFCut section
\* is the inverse filter of its HFRestore section, and the two in series, in
\* either order, return their input.
C13_CutInvertsRestore ==
    SameShielding =>
        /\ \A i \in 1 .. 5 :
              /\ hfCut.designs[i].type = hfRestore.designs[i].type
              /\ hfCut.designs[i].fc = hfRestore.designs[i].fc
              /\ hfCut.designs[i].Q100 = hfRestore.designs[i].Q100
              /\ hfCut.designs[i].gainDB10 = -hfRestore.designs[i].gainDB10
        /\ InverseSection(hfCut.shelf1, hfRestore.shelf1)
        /\ InverseSection(hfCut.shelf2, hfRestore.shelf2)
        /\ InverseSection(hfCut.bell1, hfRestore.bell1)
        /\ InverseSection(hfCut.bell2, hfRestore.bell2)
        /\ InverseSection(hfCut.bell3, hfRestore.bell3)
        /\ last.op \in {"cutThenRestore", "restoreThenCut"} =>
              FLe(FAbs(FSub(last.res.output, last.input)), NullTolerance)
\* A unit sample has gone through both, set to the Tracks mode at a rate
\* where the Nyquist clamps act.
C13_ClampedPairProcessed ==
    /\ SameShielding /\ ~hfCut.ampexMode /\ hfCut.fs = 32000
    /\ hfCut.designs[4].fc = 14400
    /\ last.op = "restoreThenCut" /\ last.input = One
    /\ hfCut.shelf1.z1 # Zero

\* One channel of a block run on its own from sample i on: the left channel
\* by processSample, the right one by processRightChannel.
\* Returns <<processor, outputs>>.
RECURSIVE ChannelAlone(_, _, _, _, _)
ChannelAlone(p, channel, block, i, outputs) ==
    IF i > Len(block) THEN <<p, outputs>>
    ELSE CHOOSE x \in {ChannelAlone(r.proc, channel, block, i + 1,
                                    Append(outputs, r.output)) :
                       r \in {IF channel = 1
                              THEN processSample(p, block[i][1])
                              ELSE processRightChannel(p, block[i][2])}} : TRUE

\* The outputs of the interleaved loop, <<left, right>> for every sample:
\* sample i is handled by the processors as the loop over the first i - 1
\* samples leaves them.
InterleavedOutputs(l, r, block) ==
    [i \in 1 .. Len(block) |->
        CHOOSE x \in {<<processSample(s[1], block[i][1]).output,
                        processRightChannel(s[2], block[i][2]).output>> :
                      s \in {BlockLoop(l, r, SubSeq(block, 1, i - 1), 1)}} : TRUE]

\* C14: a step that changes one processor leaves the others as they were,
\* and the per-sample loop of processBlock, which alternates between the left
\* and the right processor, leaves each processor in the state, and gives
\* each channel the outputs, of running that channel alone.
C14_InstancesIndependent ==
    [][/\ proc' # proc =>
             UNCHANGED <<other, tapeProcessorLeft, tapeProcessorRight>>
       /\ (tapeProcessorLeft' # tapeProcessorLeft
              \/ tapeProcessorRight' # tapeProcessorRight) =>
             UNCHANGED <<proc, other>>
       /\ last'.op = "processBlock" =>
             \E block \in Blocks :
               \E alone \in
                 {<<ChannelAlone(setParameters(tapeProcessorLeft,
                                      BiasOfMode(machineModeParam), One),
                                 1, block, 1, << >>),
                    ChannelAlone(setParameters(tapeProcessorRight,
                                      BiasOfMode(machineModeParam), One),
                                 2, block, 1, << >>)>>} :
                 /\ tapeProcessorLeft' = alone[1][1]
                 /\ tapeProcessorRight' = alone[2][1]
                 /\ InterleavedOutputs(
                       setParameters(tapeProcessorLeft, BiasOfMode(machineModeParam), One),
                       setParameters(tapeProcessorRight, BiasOfMode(machineModeParam), One),
                       block)
                     = [i \in 1 .. Len(block) |-> <<alone[1][2][i], alone[2][2][i]>>]
      ]_vars
\* A block has gone through both channel processors after calls on a third
\* processor, and the two channels are in different states.
C14_BlockAfterOtherCalls ==
    /\ last.op = "processBlock"
    /\ proc # NewProcessor
    /\ tapeProcessorLeft # tapeProcessorRight
    /\ tapeProcessorLeft.reEmphasis.shelf1.z1 # Zero

\* Every delay element of a five-section emphasis filter is zero.
EmphasisAtRest(em) ==
    \A f \in {em.shelf1, em.shelf2, em.bell1, em.bell2, em.bell3} :
        f.z1 = Zero /\ f.z2 = Zero

\* The dynamic state of a processor is zero: the filters' delay elements, the
\* hysteresis state, the envelope and the delay buffer.
AtRest(p) ==
    /\ \A f \in {p.dcBlocker1, p.dcBlocker2} : f.z1 = Zero /\ f.z2 = Zero
    /\ EmphasisAtRest(p.reEmphasis) /\ EmphasisAtRest(p.deEmphasis)
    /\ p.jaCore.M_n1 = Zero /\ p.jaCore.H_n1 = Zero /\ p.jaCore.H_d_n1 = Zero
    /\ p.jaEnvelope = Zero
    /\ \A i \in 0 .. DELAY_BUFFER_SIZE - 1 : p.delayBuffer[i] = Zero

\* C15: a zero sample given to processSample or processRightChannel of a
\* processor whose dynamic state is zero returns exactly 0 and leaves the
\* dynamic state zero, for either profile, every input gain and sample rate;
\* hence any number of zero samples after reset() does.
C15_SilenceIsFixedPoint ==
    [][(/\ AtRest(proc)
        /\ last'.op \in {"processSample", "processRightChannel"}
        /\ last'.input = Zero)
         => (last'.res.output = Zero /\ AtRest(proc'))]_vars
\* A third call that is a zero sample through processRightChannel in the
\* Tracks profile with an input gain of 200, the state still zero.
C15_SilentTracksSample ==
    /\ calls = 3
    /\ last.op = "processRightChannel" /\ last.input = Zero
    /\ ~proc.isAmpexMode /\ proc.currentInputGain = F(200, 0)
    /\ proc.delayWriteIndex # 0
    /\ last.res.output = Zero /\ AtRest(proc)

\* The five coefficients of a section.
SectionCoefficients(f) == <<f.b0, f.b1, f.b2, f.a1, f.a2>>

\* What configures a processor: the sample rate, the setParameters arguments,
\* the profile with the cached delay length, and the coefficients and rates of
\* every stage it owns.
Configuration(p) ==
    [fs |-> p.fs, bias |-> p.currentBiasStrength, gain |-> p.currentInputGain,
     cached |-> Coefficients(p),
     dc |-> <<SectionCoefficients(p.dcBlocker1), SectionCoefficients(p.dcBlocker2)>>,
     emphasis |->
        [em \in {"re", "de"} |->
            LET e == IF em = "re" THEN p.reEmphasis ELSE p.deEmphasis
            IN  <<e.fs, SectionCoefficients(e.shelf1), SectionCoefficients(e.shelf2),
                  SectionCoefficients(e.bell1), SectionCoefficients(e.bell2),
                  SectionCoefficients(e.bell3)>>],
     core |-> <<p.jaCore.sampleRate, p.jaCore.T>>,
     allpass |-> <<p.dispersiveCornerFreq,
                   [i \in DOMAIN p.dispersiveAllpass |-> p.dispersiveAllpass[i].coefficient]>>,
     machineEQ |-> <<p.machineEQ.fs, p.machineEQ.designedFor, p.machineEQ.currentMachine>>]

\* C16: reset() of a processor that has handled samples leaves every delay
\* element of every stage it owns, the hysteresis state, the envelope, the
\* delay buffer and the write index at zero, and leaves the configuration
\* (rates, setParameters arguments, profile, coefficients, cached delay
\* length) as it was.
C16_ResetOnlyDynamicState ==
    [][(phase = "use" /\ phase' = "compare") =>
          /\ AtRest(proc')
          /\ proc'.delayWriteIndex = 0
          /\ \A i \in DOMAIN proc'.dispersiveAllpass :
                proc'.dispersiveAllpass[i].z1 = Zero
          /\ \A i \in DOMAIN proc'.machineEQ.z :
                \A k \in DOMAIN proc'.machineEQ.z[i] : proc'.machineEQ.z[i][k] = Zero
          /\ Configuration(proc') = Configuration(proc)
          /\ ~AtRest(proc)]_vars
\* reset() has run on a used processor configured for the Tracks profile at
\* 96 kHz.
C16_UsedTracksProcessorReset ==
    /\ phase = "compare" /\ calls = 0 /\ last.op = "reset"
    /\ ~proc.isAmpexMode /\ proc.fs = 96000
    /\ proc.cachedDelaySamples # 0

\* The last iterate of the solver when the branch is chosen by the sign of
\* H minus the stored field.
SolvedByFieldDifference(ja, H) ==
    LET its == NRLoop(ja, H, FDiv(FSub(H, ja.H_n1), ja.T),
                      IF FGe(FSub(H, ja.H_n1), Zero) THEN One ELSE FNeg(One),
                      ja.M_n1, 0)
    IN  its[Len(its)]

\* C17: every process call stores its field and the magnetisation it
\* returns, the returned value is the solver's for the branch given by the
\* sign of the field minus the stored field, and once both ramps are
\* complete the ascending and the descending ramp have returned different
\* values for at least one field value.
C17_HistoryDependent ==
    [][/\ ramp'.up # ramp.up /\ ramp'.up # << >> =>
             LET H == RampField(Len(ramp'.up))
             IN  /\ ramp'.ascending.H_n1 = H
                 /\ ramp'.ascending.M_n1 = ramp'.up[Len(ramp'.up)]
                 /\ ramp'.up[Len(ramp'.up)] = SolvedByFieldDifference(ramp.ascending, H)
       /\ ramp'.down # ramp.down /\ ramp'.down # << >> =>
             LET H == RampField(RampLength + 1 - Len(ramp'.down))
             IN  /\ ramp'.descending.H_n1 = H
                 /\ ramp'.descending.M_n1 = ramp'.down[Len(ramp'.down)]
                 /\ ramp'.down[Len(ramp'.down)] = SolvedByFieldDifference(ramp.descending, H)
       /\ (Len(ramp'.up) = RampLength /\ Len(ramp'.down) = RampLength) =>
             \E k \in 1 .. RampLength : ramp'.up[k] # ramp'.down[RampLength + 1 - k]
      ]_vars
\* Both ramps are complete on cores with the Master parameters, and the
\* descending ramp has taken the falling branch.
C17_BothRampsComplete ==
    /\ Len(ramp.up) = RampLength /\ Len(ramp.down) = RampLength
    /\ ramp.ascending.params = AmpexProfile.jaParams
    /\ FLt(ramp.descending.H_d_n1, Zero) /\ FGt(ramp.ascending.H_d_n1, Zero)

\* C18: in processSample the envelope moves toward |gained| by the attack
\* coefficient times the distance when |gained| is above the envelope and by
\* the release coefficient times the distance otherwise, and the attack
\* coefficient is strictly larger than the release coefficient.
C18_FastAttackSlowRelease ==
    [][last'.op = "processSample" =>
          LET absGained == FAbs(FMul(last'.input, proc.currentInputGain))
              coefficient == IF FGt(absGained, proc.jaEnvelope)
                             THEN envAttack ELSE envRelease
          IN  /\ proc'.jaEnvelope =
                    FAdd(proc.jaEnvelope,
                         FMul(coefficient, FSub(absGained, proc.jaEnvelope)))
              /\ FGt(envAttack, envRelease)]_vars
\* The envelope has risen on a sample of 0.5 and is falling on a zero sample:
\* it has fallen by a larger fraction of the distance (the release
\* coefficient) than it rose by (the attack coefficient).
C18_ReleaseFasterThanAttack ==
    /\ last.op = "processSample" /\ last.input = Zero /\ calls = 2
    /\ FGt(proc.jaEnvelope, Zero)
    /\ \E rise \in {FMul(envAttack, FMul(F(5, -1), proc.currentInputGain))} :
          proc.jaEnvelope = FSub(rise, FMul(envRelease, rise))
    /\ FGt(envRelease, envAttack)

\* Envelope values 0.0, 0.1, ... for which the weights are computed.
EnvelopeSteps == 40

\* The weight computed from threshold, width and maximum lies in [0, max]
\* with max <= 1, is 0 up to the threshold and max from threshold + width
\* on, for the envelope env.
WeightInRange(env, threshold, width, max) ==
    \E w \in {SmoothBlend(env, threshold, width, max)} :
       /\ FLe(Zero, w) /\ FLe(w, max) /\ FLe(max, One)
       /\ FLe(env, threshold) => w = Zero
       /\ FGe(env, FAdd(threshold, width)) => w = max

\* C19: for the thresholds, widths and maxima of every processor, the J-A
\* blend weight and the atan mix amount lie in [0, maximum] within [0, 1],
\* are 0 up to the threshold and the maximum from threshold + width on, and
\* do not decrease as the envelope grows; the weights a call has used are
\* those of the envelope it left.
C19_BlendWeightsBounded ==
    /\ \A p \in {proc, other} :
         \A t \in {<<p.jaBlendThreshold, p.jaBlendWidth, p.jaBlendMax>>,
                    <<p.atanThreshold, p.atanWidth, p.atanMixMax>>} :
           /\ WeightInRange(p.jaEnvelope, t[1], t[2], t[3])
           /\ \A k \in 0 .. EnvelopeSteps :
                 /\ WeightInRange(F(k, -1), t[1], t[2], t[3])
                 /\ FLe(SmoothBlend(F(k, -1), t[1], t[2], t[3]),
                        SmoothBlend(F(k + 1, -1), t[1], t[2], t[3]))
    /\ last.op = "stereoProcess" =>
          /\ last.resOther.jaBlend =
                SmoothBlend(other.jaEnvelope, other.jaBlendThreshold,
                            other.jaBlendWidth, other.jaBlendMax)
          /\ last.res.atanAmount =
                SmoothBlend(proc.jaEnvelope, proc.atanThreshold,
                            proc.atanWidth, proc.atanMixMax)
\* A call in the Tracks profile has used the maximum J-A weight and an atan
\* amount strictly between 0 and its maximum.
C19_PartialAndFullWeight ==
    /\ last.op = "stereoProcess" /\ ~other.isAmpexMode
    /\ last.resOther.jaBlend = other.jaBlendMax
    /\ FLt(Zero, last.resOther.atanAmount)
    /\ FLt(last.resOther.atanAmount, other.atanMixMax)

\* The sample rates the plugin supports.
Supported(fs) == 44100 <= fs /\ fs <= 192000

\* fc, in tenths of a Hz, is at most 0.9 times fs / 2.
WithinNyquistMargin(fc10, fs) == 2 * fc10 <= 9 * fs

\* C20: at every supported sample rate, every frequency ReEmphasis,
\* DeEmphasis, HFCut, HFRestore and MachineEQ pass to a coefficient design
\* function is at most 0.9 times fs / 2.
C20_DesignFrequenciesBelowNyquist ==
    /\ \A h \in {hfCut, hfRestore} :
          Supported(h.fs) =>
             \A i \in DOMAIN h.designs : WithinNyquistMargin(10 * h.designs[i].fc, h.fs)
    /\ \A em \in {proc.reEmphasis, proc.deEmphasis} :
          Supported(em.fs) =>
             \A i \in 1 .. 5 :
                WithinNyquistMargin(10 * EmphasisDesignFrequencies(em.fs)[i], em.fs)
    /\ \A fs \in HostRates :
          \A i \in 1 .. 5 :
             WithinNyquistMargin(10 * EmphasisDesignFrequencies(fs)[i], fs)
    /\ \A m \in {machineEQ, proc.machineEQ} :
          Supported(m.designedFor) =>
             \A i \in DOMAIN MachineEQDesigns(m.designedFor) :
                WithinNyquistMargin(MachineEQDesigns(m.designedFor)[i].fc10,
                                    MachineEQDesigns(m.designedFor)[i].fs)
\* MachineEQ designed for 88200 Hz, twice the host rate 44100: the corner
\* of its first-order low-pass is above 0.9 times Nyquist, while HFCut and
\* HFRestore at 44100 Hz pass frequencies within the margin.
C20_LowPassAboveMargin ==
    /\ machineEQ.designedFor = 88200
    /\ \E d \in {MachineEQDesigns(machineEQ.designedFor)[12]} :
          /\ d.type = "firstOrderLowPass"
          /\ ~WithinNyquistMargin(d.fc10, d.fs)
    /\ hfCut.fs = 44100 /\ hfRestore.fs = 44100
    /\ \A i \in 1 .. 5 : WithinNyquistMargin(10 * hfCut.designs[i].fc, hfCut.fs)

\* C21: when atanDrive < 0.001, softAtan and asymmetricAtan return their
\* argument and execute no division; when atanDrive >= 0.001 every division
\* they execute has a finite non-zero divisor, and the normalising division
\* of softAtan is by atanDrive itself.
C21_AtanBypassAndDivisors ==
    (phase = "kernel" /\ last.op \in {"softAtan", "asymmetricAtan"}) =>
        /\ last.output = last.res.output
        /\ IF FLt(last.atanDrive, NormFloor)
           THEN last.res.output = last.x /\ last.res.divisors = << >>
           ELSE /\ last.res.divisors # << >>
                /\ \A i \in 1 .. Len(last.res.divisors) :
                      /\ last.res.divisors[i] # NonFinite
                      /\ last.res.divisors[i][1] # 0
                /\ last.op = "softAtan" => last.res.divisors = <<last.atanDrive>>

\* asymmetricAtan was called with a drive just below the test and bypassed
\* a non-zero argument.
C21_BypassedBelowThreshold ==
    /\ phase = "kernel" /\ last.op = "asymmetricAtan"
    /\ last.atanDrive = F(999, -6) /\ last.x = F(-2, 0)
    /\ last.res.output = F(-2, 0) /\ last.res.divisors = << >>

\* C22: for |x| < 1e-4 langevin returns x / 3 and langevinD returns 1 / 3,
\* dividing only by the literal 3; for |x| >= 1e-4 both take the
\* coth(x) - 1/x form, and none of the divisors tanh(x), x and x * x of that
\* form is zero.
C22_LangevinFallbackNearZero ==
    (phase = "kernel" /\ last.op = "langevin") =>
        /\ last.output = <<last.L.value, last.Ld.value>>
        /\ IF FLt(FAbs(last.x), SmallX)
           THEN /\ last.L.form = "taylor" /\ last.Ld.form = "taylor"
                /\ last.output = <<FDiv(last.x, Three), FDiv(One, Three)>>
                /\ last.L.divisors = <<Three>> /\ last.Ld.divisors = <<Three>>
           ELSE /\ last.L.form = "coth" /\ last.Ld.form = "coth"
                /\ \A d \in {last.L, last.Ld} : \A i \in 1 .. Len(d.divisors) :
                      d.divisors[i][1] # 0

\* The Langevin functions were called at zero and took the Taylor branch.
C22_CalledAtZero ==
    /\ phase = "kernel" /\ last.op = "langevin" /\ last.x = Zero
    /\ last.L.form = "taylor" /\ last.output = <<Zero, FDiv(One, Three)>>

\* The twelve biquad sections of a processor, in processing order.
Sections(p) ==
    << p.deEmphasis.shelf1, p.deEmphasis.shelf2, p.deEmphasis.bell1,
       p.deEmphasis.bell2, p.deEmphasis.bell3,
       p.reEmphasis.shelf1, p.reEmphasis.shelf2, p.reEmphasis.bell1,
       p.reEmphasis.bell2, p.reEmphasis.bell3, p.dcBlocker1, p.dcBlocker2 >>

\* The output of a section for the input x: b0 * x + z1.
SectionOutput(f, x) == FAdd(FMul(f.b0, x), f.z1)

\* The output of the sections fs[from .. to] in series for the input x.
RECURSIVE SeriesOutput(_, _, _, _)
SeriesOutput(fs, from, to, x) ==
    IF from > to THEN x
    ELSE SeriesOutput(fs, from + 1, to, SectionOutput(fs[from], x))

\* g is f one sample later, the sample being x.
OneSample(f, g, x) ==
    /\ SectionCoefficients(g) = SectionCoefficients(f)
    /\ g.z1 = FAdd(FSub(FMul(f.b1, x), FMul(f.a1, SectionOutput(f, x))), f.z2)
    /\ g.z2 = FSub(FMul(f.b2, x), FMul(f.a2, SectionOutput(f, x)))

\* The sections before[from .. to] in series each advanced by one sample to
\* after[from .. to], the first receiving x; out is the last one's output.
RECURSIVE SeriesOneSample(_, _, _, _, _, _)
SeriesOneSample(before, after, from, to, x, out) ==
    IF from > to THEN x = out
    ELSE /\ OneSample(before[from], after[from], x)
         /\ SeriesOneSample(before, after, from + 1, to,
                            SectionOutput(before[from], x), out)

C25_ConstantWorkPerSample ==
    [][(phase = "api" /\ last'.op = "processSample") =>
          /\ Len(last'.res.iterates) = 8
          /\ last'.res.jaOutput = last'.res.iterates[8]
          /\ proc'.jaCore.M_n1 = last'.res.iterates[8]
          /\ last'.res.stages = StagesRun
          /\ \A i \in 1 .. 12 :
                \E x \in {SeriesOutput(Sections(proc), IF i <= 5 THEN 1 ELSE 6, i - 1,
                                       IF i <= 5
                                       THEN FMul(last'.input, proc.currentInputGain)
                                       ELSE last'.res.blended)} :
                   OneSample(Sections(proc)[i], Sections(proc')[i], x)]_vars

\* A call whose solver had stopped moving before its last iteration, on a
\* non-zero magnetisation.
C25_ConvergedBeforeLastIteration ==
    /\ phase = "api" /\ last.op = "processSample"
    /\ last.res.iterates[1] # Zero
    /\ last.res.iterates[2] # last.res.iterates[1]
    /\ last.res.iterates[7] = last.res.iterates[6]
    /\ Len(last.res.iterates) = 8

\* The state of a processor that processing advances: the delay words of the
\* twelve sections, the solver's history, the envelope and the delay line.
DynamicState(p) ==
    [sections |-> [i \in 1 .. 12 |-> <<Sections(p)[i].z1, Sections(p)[i].z2>>],
     M_n1 |-> p.jaCore.M_n1, H_n1 |-> p.jaCore.H_n1, H_d_n1 |-> p.jaCore.H_d_n1,
     jaEnvelope |-> p.jaEnvelope, delayBuffer |-> p.delayBuffer,
     delayWriteIndex |-> p.delayWriteIndex]

\* C26: a setParameters call leaves the dynamic processing state as it was,
\* and a second call with the same arguments changes nothing in the
\* processor.
C26_SetParametersFrameAndIdempotent ==
    [][(phase = "api" /\ last'.op = "setParameters") =>
          /\ DynamicState(proc') = DynamicState(proc)
          /\ setParameters(proc', last'.biasStrength, last'.inputGain) = proc']_vars

\* setParameters switched a processor holding non-zero state to the Tracks
\* profile.
C26_ProfileSwitchedWithStateHeld ==
    /\ phase = "api" /\ last.op = "setParameters"
    /\ ~proc.isAmpexMode /\ proc.tanhDrive = StuderProfile.tanhDrive
    /\ proc.jaCore.M_n1 # Zero /\ proc.jaEnvelope # Zero
    /\ proc.dcBlocker2.z1 # Zero

\* C30: with either profile's parameter set, a magnetisation within
\* [-M_s, M_s] and the anhysteretic magnetisation within the same range, no
\* division of a solver iteration has a zero divisor: the irreversible-term
\* denominator delta * k - alpha * (M_an - M) is non-zero where the branch
\* dividing by it is taken, and 1 - c * alpha is non-zero.
C30_SolverDivisorsNonZero ==
    (phase = "kernel" /\ last.op = "solveNR8") =>
        /\ FLe(FAbs(last.res.M_an), last.params.M_s)
        /\ last.res.taken => last.res.irreversible[1] # 0
        /\ last.res.denom[1] # 0
        /\ last.res.denom = FSub(One, FMul(last.params.c, last.params.alpha))
        /\ \A i \in 1 .. Len(last.res.divisors) :
              /\ last.res.divisors[i] # NonFinite
              /\ last.res.divisors[i][1] # 0
        /\ last.output # NonFinite

\* An iteration with the Tracks parameters that divided by the irreversible
\* term, at the largest difference M_an - M the range allows for.
C30_IrreversibleBranchTaken ==
    /\ phase = "kernel" /\ last.op = "solveNR8"
    /\ last.params = StuderProfile.jaParams
    /\ last.M = F(-1, 0) /\ last.H = F(1, 3)
    /\ last.res.taken /\ Len(last.res.divisors) >= 4

\* C28: whenever no parameterChanged call is in progress the recorded value
\* lastInputTrimValue is the value the input trim parameter holds, whatever
\* notifications arrived and however they overlapped: no change of the input
\* trim is left out of the record and of the compensation.
C28_RecordedValueIsInputTrim ==
    callback.pc = "idle" => lastInputTrimValue = inputTrimParam
\* A change of the input trim arrived while another call had the guard set:
\* both calls have returned, the output trim is the compensation for the
\* first change alone and the recorded value is the first change's value,
\* not the value the parameter holds.
C28_OverlappingChangeDropped ==
    /\ callback.pc = "idle" /\ callback.nested > 0
    /\ ~isUpdatingOutputTrim
    /\ lastInputTrimValue = callback.newValue
    /\ inputTrimParam # callback.newValue
    /\ outputTrimParam = NewOutputTrim(callback.previousOutputTrim,
                                       callback.recorded, callback.newValue)

MonoSum(sample) == FMul(FAdd(sample[1], sample[2]), F(5, -1))

\* The crosstalk filter after the mono sums of the first k samples of a
\* buffer have run through it.
RECURSIVE CrosstalkFilterAfter(_, _, _)
CrosstalkFilterAfter(c, buffer, k) ==
    IF k = 0 THEN c
    ELSE CrosstalkProcess(CrosstalkFilterAfter(c, buffer, k - 1),
                          MonoSum(buffer[k]))[1]

\* C24: a processBlock call in Master mode runs neither the crosstalk stage
\* nor the print-through stage: the buffer leaves each as it entered it and
\* the crosstalk filter and the print-through line are as before the call.
\* In Tracks mode with two channels every sample gets the same crosstalk
\* value on both channels, the crosstalk filter's output for the mono sum
\* (left + right) / 2 of the sample.
C24_CrosstalkAndPrintThroughGated ==
    [][(last'.op = "processBlock" /\ calls' = calls + 1) =>
         LET i == last'.instance
             before == instances[i]
             after == instances'[i]
         IN  /\ last'.machineMode = 0 =>
                   /\ last'.crosstalk = << >>
                   /\ last'.afterCrosstalk = last'.down
                   /\ last'.afterPrintThrough = last'.afterTolerance
                   /\ after.crosstalkFilter = before.crosstalkFilter
                   /\ after.printThrough = before.printThrough
             /\ (last'.machineMode = 1 /\ last'.channels >= 2) =>
                   /\ Len(last'.crosstalk) = last'.numSamples
                   /\ \A k \in 1..last'.numSamples :
                         /\ last'.crosstalk[k] =
                              CrosstalkProcess(
                                 CrosstalkFilterAfter(before.crosstalkFilter,
                                                      last'.down, k - 1),
                                 MonoSum(last'.down[k]))[2]
                         /\ last'.afterCrosstalk[k] =
                              <<FAdd(last'.down[k][1], last'.crosstalk[k]),
                                FAdd(last'.down[k][2], last'.crosstalk[k])>>]_vars
\* An instance that has run a Tracks block, so that its crosstalk filter and
\* its print-through line hold samples, has processed a block of one sample
\* in Master mode.
C24_MasterBlockAfterTracksBlock ==
    /\ last.op = "processBlock" /\ last.machineMode = 0 /\ last.numSamples = 1
    /\ last.channels = 2
    /\ instances[last.instance].crosstalkFilter.highpass.z1 # Zero
    /\ instances[last.instance].printThrough.writeIndex = 1
    /\ last.output[1][1] # last.output[1][2]

\* C27: with several plugin instances in the process, an instance that
\* processes a block has its head-bump modulator and its tolerance EQ
\* prepared for its own Machine Mode: for Ampex in Master mode, for Studer
\* in Tracks mode, whatever blocks the instances processed before.
C27_PreparedForOwnMode ==
    last.op = "processBlock" =>
        last.preparedForAmpex = <<last.machineMode = 0, last.machineMode = 0>>
\* An instance in Tracks mode has run a block of one sample through a
\* modulator and a tolerance EQ that prepareToPlay prepared for Ampex: the
\* other instance, in Tracks mode as well, had processed a block before and
\* left lastMachineMode at 1, so the call prepared nothing.
C27_TracksBlockPreparedForAmpex ==
    /\ last.op = "processBlock" /\ last.machineMode = 1 /\ last.numSamples = 1
    /\ ~last.prepared
    /\ last.preparedForAmpex = <<TRUE, TRUE>>
    /\ lastMachineMode = 1
    /\ \E j \in Instances \ {last.instance} :
          /\ instances[j].machineMode = 1
          /\ ~instances[j].toleranceEQ.isAmpex
          /\ instances[j].headBumpModulator.centerFreq = 75

====
